---- MODULE Spec2Model ----
(***************************************************************************)
(* Model of the godex indexing core (pkg/core/processor/processor.go):     *)
(* Processor.AddChain / Processor.Run and, per chain, runChain with its    *)
(* epoch goroutines (planner, fetch workers, closer, arbiter), the reorg   *)
(* resolver handleReorg and the window-hash store.                         *)
(*                                                                         *)
(* The RPC adapter is an interface (pkg/core/rpc/rpc.go); it is modelled   *)
(* as an environment: a chain of block hashes that may reorganise, calls   *)
(* that may fail (a bounded number of times on their own, and always once  *)
(* their context is cancelled).  Inside runChain rpc.RetryWithBackoff is    *)
(* represented by its result: nil, or an error once it has given up.  The  *)
(* retry executor itself (pkg/core/rpc, with errors.IsRetryableError) is   *)
(* modelled on its own, step by step, under SpecRetry.                     *)
(***************************************************************************)
EXTENDS Integers, Sequences, FiniteSets, TLC

\* ---------------------------------------------------------------- bounds
MaxHead == 2        \* highest block number the RPC ever reports as head
MaxLogs == 2        \* most logs one fetched range carries
MaxFailures == 1    \* RPC calls that fail although their context is live
MaxReorgs == 2      \* chain reorganisations performed by the environment

ChainIds == {1, 2}
MaxWorkers == 2
Blocks == 0..(MaxHead + 1)

\* Scenario "store" (see Options) runs one chain with RangeSize 500 up to
\* heights beyond hardFallbackBlocks.  StoreHeads are the heads its endpoint
\* reports, StoreHeights the block heights at which a hash is ever looked at
\* (the ends of the windows planned for these heads, and the candidates of
\* the ancestor search, which steps back 500 blocks at a time), StoreForks
\* the heights from which its chain may reorganise or be cut off.
StoreHeads == {700, 1500, 1700, 2200}
StoreHeights == {0, 200, 500, 700, 1000, 1200, 1500, 1700, 2000, 2200}
StoreForks == {1, 501, 701}

\* Scenario "pressure" runs one chain with RangeSize 1 and an output buffer
\* of one log up to PressureHead: enough ranges for one window to be stuck at
\* the output, a full result channel and a result in the hands of every
\* worker, with one or two workers.
PressureHead == 6

\* uint64 arithmetic is modelled in a word of Uint64 values (it wraps at
\* Uint64 as the program's wraps at 2^64), int in its non-negative half.
\* Every height of the scenarios above is below MaxInt.
Uint64 == 4096
MaxInt == Uint64 \div 2 - 1
MaxPlanned == 6     \* ranges of one planning loop that are followed

\* -------------------------------------------------------------- variables
VARIABLES
    chains,     \* Processor.chains: chainId -> chainState
    logsCh,     \* Processor.logsCh: chainId -> buffered channel content
    isRunning,  \* Processor.isRunning
    run,        \* the call Processor.Run(ctx): position and result
    ctxDone,    \* the parent context passed to Run has been cancelled
    runner,     \* per chain: runChain's own position (the epoch loop)
    planner,    \* per chain: the job-planning goroutine
    jobs,       \* per chain: channel jobs
    workers,    \* per chain: the fetch goroutines
    errCh,      \* per chain: channel errCh (one slot)
    doneCh,     \* per chain: channel doneCh
    done,       \* per chain: channel done is closed
    arbiter,    \* per chain: the arbiter goroutine
    rpc,        \* per chain: the RPC endpoint (environment)
    sent,       \* per chain: logs sent to logsCh in the current epoch
    scenario,   \* which inputs the environment offers (see Options)
    addCall,    \* the call Processor.AddChain in progress, and the last result
    retry,      \* a call rpc.RetryWithBackoff(ctx, config, fn) on its own
    plan,       \* the planning loop of runChain on its own
    calls       \* calls of storeWindowHash / dropWindowHash on their own

pvars == <<chains, logsCh, isRunning, run, ctxDone>>
cvars == <<runner, planner, jobs, workers, errCh, doneCh, done, arbiter>>
vars == <<chains, logsCh, isRunning, run, ctxDone, runner, planner, jobs,
          workers, errCh, doneCh, done, arbiter, rpc, sent, scenario, addCall, retry, plan, calls>>

\* ------------------------------------------------------------------ errors
NoErr == [cause |-> "none", by |-> "none"]
Err(cause, by) == [cause |-> cause, by |-> by]

\* ---------------------------------------------------------------- helpers
Min(a, b) == IF a < b THEN a ELSE b
Last(s) == s[Len(s)]

\* map lookup with Go's zero value for a missing key ("" for a hash)
NoHash == 0
Lookup(m, k) == IF k \in DOMAIN m THEN m[k] ELSE NoHash
MapDelete(m, ks) == [k \in (DOMAIN m) \ ks |-> m[k]]
MapPut(m, k, v) == [x \in (DOMAIN m) \cup {k} |-> IF x = k THEN v ELSE m[x]]
EmptyMap == [k \in {} |-> 0]

\* ------------------------------------------------------- window-hash store
\* dropWindowHash: walk windowOrder from the tail, deleting entries > after
RECURSIVE DropIndex(_, _, _)
DropIndex(order, i, after) ==
    IF i >= 1 /\ order[i] > after THEN DropIndex(order, i - 1, after) ELSE i

dropWindowHash(after, cs) ==
    LET i == DropIndex(cs.windowOrder, Len(cs.windowOrder), after)
        dropped == {cs.windowOrder[j] : j \in (i + 1)..Len(cs.windowOrder)}
    IN  [cs EXCEPT !.storedWindowHash = MapDelete(@, dropped),
                   !.windowOrder = SubSeq(@, 1, i)]

\* Faulty variant of storeWindowHash: a full store evicts nothing.
storeWindowHashNoEvict(to, blockHash, cs) ==
    [cs EXCEPT !.storedWindowHash = MapPut(@, to, blockHash),
               !.windowOrder = IF to \in DOMAIN cs.storedWindowHash
                               THEN @ ELSE Append(@, to)]

\* Faulty variant of storeWindowHash: an existing key moves to the tail.
storeWindowHashMovesToTail(to, blockHash, cs) ==
    LET Other(k) == k # to
        rest == SelectSeq(cs.windowOrder, Other)
        full == Len(rest) >= cs.storedWindowHashCap
        m == IF full THEN MapDelete(cs.storedWindowHash, {rest[1]})
                     ELSE cs.storedWindowHash
        o == IF full THEN Tail(rest) ELSE rest
    IN  [cs EXCEPT !.storedWindowHash = MapPut(m, to, blockHash),
                   !.windowOrder = Append(o, to)]

storeWindowHash(to, blockHash, cs) ==
    IF to \in DOMAIN cs.storedWindowHash
    THEN [cs EXCEPT !.storedWindowHash[to] = blockHash]
    ELSE LET full == Len(cs.windowOrder) >= cs.storedWindowHashCap
             old == cs.windowOrder[1]
             m == IF full THEN MapDelete(cs.storedWindowHash, {old})
                          ELSE cs.storedWindowHash
             o == IF full THEN Tail(cs.windowOrder) ELSE cs.windowOrder
         IN  [cs EXCEPT !.storedWindowHash = MapPut(m, to, blockHash),
                        !.windowOrder = Append(o, to)]

\* --------------------------------------------------------------- AddChain
\* rs := uint64(opts.RangeSize); base := (ReorgLookbackBlocks + rs - 1) / rs;
\* cap := base + 1; if cap < 8 { cap = 8 }; if cap > 256 { cap = 256 }
\* (uint64 arithmetic: the sum and the increment wrap)
WindowCap(lookback, rs) ==
    LET base == ((lookback + rs - 1) % Uint64) \div rs
        cap == (base + 1) % Uint64
    IN  IF cap < 8 THEN 8 ELSE IF cap > 256 THEN 256 ELSE cap

HardFallbackBlocks == 1000

\* Scenario "cap" (see Options) registers one chain with any of these values
\* of ReorgLookbackBlocks (a uint64: from 0 to the largest) and RangeSize
\* (an int > 0: from 1 to the largest).
CapLookbacks == {0, 1, 6, 7, 8, 64, 254, 255, 256, 1000, 2000,
                 Uint64 - 2, Uint64 - 1}
CapSizes == {1, 2, 3, 7, 500, MaxInt}

\* The inputs explored.  Scenario "single" registers one chain and varies
\* range size, worker count, buffer size, topic filter and EndBlock; its
\* endpoint may fail and reorganise.  Scenario "live" is "single" with the first option
\* set only and one reorganisation.  Scenario "multi" registers two chains with one worker each:
\* the endpoint of chain 1 has an empty chain and may fail, the endpoint of
\* chain 2 has one block and neither fails nor reorganises.  Scenario "fixed"
\* registers one chain whose endpoint reports the same head in every epoch and
\* never reorganises; it varies the confirmation depth (below and above the
\* head), the range size and the worker count.  Scenario "store" registers
\* one chain with one worker, ranges of 500 blocks, StartBlock 0 or 200 and
\* a topic no log carries; its endpoint may reorganise, lose blocks, and
\* fail inside handleReorg.
Options(sc) ==
    IF sc = "single"
    THEN {[RangeSize |-> 1, FetcherConcurrency |-> 2, Confimation |-> 0,
           StartBlock |-> 0, EndBlock |-> 1, LogsBufferSize |-> 1,
           ReorgLookbackBlocks |-> 4, Topics |-> <<>>],
          [RangeSize |-> 2, FetcherConcurrency |-> 1, Confimation |-> 0,
           StartBlock |-> 0, EndBlock |-> 0, LogsBufferSize |-> 2,
           ReorgLookbackBlocks |-> 4, Topics |-> <<"T">>]}
    ELSE IF sc = "live"
    THEN {[RangeSize |-> 1, FetcherConcurrency |-> 2, Confimation |-> 0,
           StartBlock |-> 0, EndBlock |-> 0, LogsBufferSize |-> 1,
           ReorgLookbackBlocks |-> 4, Topics |-> <<>>]}
    ELSE IF sc = "store"
    THEN {[RangeSize |-> 500, FetcherConcurrency |-> 1, Confimation |-> 0,
           StartBlock |-> 0, EndBlock |-> 0, LogsBufferSize |-> 1,
           ReorgLookbackBlocks |-> 1000, Topics |-> <<"X">>],
          [RangeSize |-> 500, FetcherConcurrency |-> 1, Confimation |-> 0,
           StartBlock |-> 200, EndBlock |-> 0, LogsBufferSize |-> 1,
           ReorgLookbackBlocks |-> 1000, Topics |-> <<"X">>]}
    ELSE IF sc = "fixed"
    THEN {[RangeSize |-> 1, FetcherConcurrency |-> 2, Confimation |-> 0,
           StartBlock |-> 0, EndBlock |-> 0, LogsBufferSize |-> 1,
           ReorgLookbackBlocks |-> 4, Topics |-> <<>>],
          [RangeSize |-> 2, FetcherConcurrency |-> 1, Confimation |-> 1,
           StartBlock |-> 0, EndBlock |-> 0, LogsBufferSize |-> 2,
           ReorgLookbackBlocks |-> 4, Topics |-> <<"T">>],
          [RangeSize |-> 1, FetcherConcurrency |-> 1, Confimation |-> MaxHead + 1,
           StartBlock |-> 0, EndBlock |-> 0, LogsBufferSize |-> 1,
           ReorgLookbackBlocks |-> 4, Topics |-> <<>>]}
    ELSE IF sc = "cap"
    THEN {[RangeSize |-> rs, FetcherConcurrency |-> 1, Confimation |-> 0,
           StartBlock |-> 0, EndBlock |-> 0, LogsBufferSize |-> 1,
           ReorgLookbackBlocks |-> lb, Topics |-> <<>>] :
              lb \in CapLookbacks, rs \in CapSizes}
    ELSE IF sc = "pressure"
    THEN {[RangeSize |-> 1, FetcherConcurrency |-> n, Confimation |-> 0,
           StartBlock |-> 0, EndBlock |-> 0, LogsBufferSize |-> 1,
           ReorgLookbackBlocks |-> 4, Topics |-> <<>>] : n \in 1..MaxWorkers}
    ELSE {[RangeSize |-> 1, FetcherConcurrency |-> 1, Confimation |-> 0,
           StartBlock |-> 0, EndBlock |-> 0, LogsBufferSize |-> 1,
           ReorgLookbackBlocks |-> 4, Topics |-> <<>>]}

ScenarioChains(sc) == IF sc = "multi" THEN ChainIds ELSE {1}

Heads(sc, c) ==
    IF sc \in {"fixed", "pressure"} THEN {rpc[c].head}
    ELSE IF sc = "store" THEN StoreHeads
    ELSE IF sc # "multi" THEN 0..MaxHead ELSE IF c = 1 THEN {0} ELSE {0, 1}

FailBudget(sc, c) == IF sc # "multi" \/ c = 1 THEN MaxFailures ELSE 0

ReorgBudget(sc, c) ==
    IF sc \in {"single", "store"} THEN MaxReorgs
    ELSE IF sc = "live" THEN MaxReorgs - 1 ELSE 0

NewChainState(opts) ==
    [cursor |-> opts.StartBlock,
     windowOrder |-> <<>>,
     storedWindowHash |-> EmptyMap,
     storedWindowHashCap |-> WindowCap(opts.ReorgLookbackBlocks, opts.RangeSize),
     hardFallbackBlocks |-> HardFallbackBlocks,
     topics |-> opts.Topics,
     opts |-> opts]

\* The call AddChain(chain, opts) holds p.mu from its first line to its
\* return, but Run takes no lock: Run's statements can fall between the test
\* of p.isRunning and the writes to p.chains and p.logsCh.  The call is
\* therefore two steps.  (Chain ids are registered once.)
NoOptions == [RangeSize |-> 0, FetcherConcurrency |-> 0, Confimation |-> 0,
              StartBlock |-> 0, EndBlock |-> 0, LogsBufferSize |-> 0,
              ReorgLookbackBlocks |-> 0, Topics |-> <<>>]
IdleAddCall == [pc |-> "idle", c |-> 0, opts |-> NoOptions, err |-> "none"]

\* Faulty variant of AddChain: the running flag is not consulted.
AddChainIgnoresRunning(c, opts) ==
    /\ addCall.pc = "idle"
    /\ c \in ScenarioChains(scenario)
    /\ opts \in Options(scenario)
    /\ c \notin DOMAIN chains
    /\ addCall' = [pc |-> "checked", c |-> c, opts |-> opts, err |-> "none"]
    /\ UNCHANGED <<chains, logsCh, isRunning, run, ctxDone, rpc, sent,
                   scenario, retry, plan, calls>>
    /\ UNCHANGED cvars

\* p.mu.Lock(); if p.isRunning { return error "cannot add chain while
\* processor is running" }
AddChain(c, opts) ==
    /\ addCall.pc = "idle"
    /\ c \in ScenarioChains(scenario)
    /\ opts \in Options(scenario)
    /\ c \notin DOMAIN chains
    /\ addCall' = IF isRunning
                  THEN [IdleAddCall EXCEPT !.err = "running"]
                  ELSE [pc |-> "checked", c |-> c, opts |-> opts, err |-> "none"]
    /\ UNCHANGED <<chains, logsCh, isRunning, run, ctxDone, rpc, sent,
                   scenario, retry, plan, calls>>
    /\ UNCHANGED cvars

\* the rest of the call: the chainState is built and stored with its output
\* channel; return nil
AddChainStore ==
    /\ addCall.pc = "checked"
    /\ chains' = MapPut(chains, addCall.c, NewChainState(addCall.opts))
    /\ logsCh' = [logsCh EXCEPT ![addCall.c] = <<>>]
    /\ addCall' = IdleAddCall
    /\ UNCHANGED <<isRunning, run, ctxDone, rpc, sent, scenario, retry, plan, calls>>
    /\ UNCHANGED cvars

\* ------------------------------------------------------------ idle values
\* (rewound, workerErr, atCancel and cursor0 record history for the
\* properties: the value the last reorg resolution returned, whether a worker
\* has published an error, whether ctx was already cancelled when runChain
\* returned, and chain.cursor at the start of the epoch)
IdleRunner == [pc |-> "idle", cancelled |-> FALSE, target |-> 0,
               then |-> "none", err |-> NoErr,
               rewound |-> -1, workerErr |-> FALSE, atCancel |-> FALSE,
               cursor0 |-> 0]
IdlePlanner == [pc |-> "idle", from |-> 0, first |-> 0]
EmptyChan == [q |-> <<>>, closed |-> FALSE]
NoJob == [from |-> 0, to |-> 0]
IdleWorker == [pc |-> "idle", job |-> NoJob, logs |-> <<>>]
\* (committed, ncommit and reorgAt record history: the logs of the window
\* last committed, the number of commits in this epoch, and the block at which
\* this epoch's arbiter saw a parent-hash mismatch; how records the path by
\* which handleReorg returned: "ancestor" for a parent-hash match, "fallback"
\* when the search ended without one, "error" after an RPC error or a
\* cancellation)
IdleArbiter == [pc |-> "idle", window |-> EmptyMap, next |-> 0, end |-> 0,
                i |-> 0, ancestor |-> 0, iter |-> 0, committed |-> <<>>,
                ncommit |-> 0, reorgAt |-> 0, how |-> "none"]
InitRpc == [hash |-> [b \in Blocks |-> 1], fails |-> 0, reorgs |-> 0,
            head |-> MaxHead, tip |-> MaxHead + 1]

\* the endpoints a scenario starts with (head: the block Head() reports when
\* the scenario fixes it)
Endpoints(sc) ==
    IF sc = "fixed"
    THEN {[c \in ChainIds |-> [InitRpc EXCEPT !.head = h]] : h \in 0..MaxHead}
    ELSE IF sc = "store"
    THEN {[c \in ChainIds |->
              [InitRpc EXCEPT !.hash = [b \in StoreHeights |-> 1],
                              !.tip = 2200]]}
    ELSE IF sc = "pressure"
    THEN {[c \in ChainIds |->
              [InitRpc EXCEPT !.hash = [b \in 0..(PressureHead + 1) |-> 1],
                              !.head = PressureHead,
                              !.tip = PressureHead + 1]]}
    ELSE {[c \in ChainIds |-> InitRpc]}

\* no call of storeWindowHash or dropWindowHash has been made on its own
\* (n counts the calls, op, arg and hash are the last call)
NoCall == [n |-> 0, op |-> "none", arg |-> 0, hash |-> 0]

\* no planning loop is followed on its own
NoPlan == [pc |-> "idle", cursor |-> 0, target |-> 0, rs |-> 0, from |-> 0,
           out |-> <<>>]

\* no call of RetryWithBackoff is in progress
NoError == [kind |-> "nil", code |-> 0]
NoResult == [kind |-> "none", wraps |-> NoError]

\* (calls, waits, fails and verdict record history: how often fn was invoked,
\* the waits slept or begun, how many of fn's errors were classified
\* retryable, and the classification of the last error)
NoRetry == [pc |-> "idle", cfg |-> [MaxAttempts |-> 0, InitialBackoff |-> 0,
                                    MaxBackoff |-> 0, Multiplier |-> 0,
                                    EnableJitter |-> FALSE],
            attempt |-> 0, backoff |-> 0, lastErr |-> NoError,
            verdict |-> FALSE, ctxDone |-> FALSE, calls |-> 0, fails |-> 0,
            waits |-> <<>>, result |-> NoResult]

\* NewProcessor(): no chain registered, not running
InitProcessor(sc) ==
    /\ scenario = sc
    /\ addCall = IdleAddCall
    /\ chains = EmptyMap
    /\ logsCh = [c \in ChainIds |-> <<>>]
    /\ isRunning = FALSE
    /\ run = [pc |-> "idle", err |-> NoErr, launched |-> {}]
    /\ ctxDone = FALSE
    /\ runner = [c \in ChainIds |-> IdleRunner]
    /\ planner = [c \in ChainIds |-> IdlePlanner]
    /\ jobs = [c \in ChainIds |-> EmptyChan]
    /\ workers = [c \in ChainIds |-> [w \in 1..MaxWorkers |-> IdleWorker]]
    /\ errCh = [c \in ChainIds |-> <<>>]
    /\ doneCh = [c \in ChainIds |-> EmptyChan]
    /\ done = [c \in ChainIds |-> FALSE]
    /\ arbiter = [c \in ChainIds |-> IdleArbiter]
    /\ rpc \in Endpoints(sc)
    /\ sent = [c \in ChainIds |-> <<>>]

InitWith(sc) ==
    InitProcessor(sc) /\ retry = NoRetry /\ plan = NoPlan /\ calls = NoCall

Init == InitWith("single")

\* -------------------------------------------------------------------- Run
\* Run(ctx): isRunning = true, one goroutine per registered chain
RunStart ==
    /\ run.pc = "idle"
    /\ isRunning' = TRUE
    /\ run' = [run EXCEPT !.pc = "waiting", !.launched = DOMAIN chains]
    /\ runner' = [c \in ChainIds |->
                    IF c \in DOMAIN chains
                    THEN [IdleRunner EXCEPT !.pc = "head"] ELSE runner[c]]
    /\ UNCHANGED <<chains, logsCh, ctxDone, planner, jobs, workers, errCh,
                   doneCh, done, arbiter, rpc, sent, scenario, addCall, retry, plan, calls>>

\* Faulty variant of WaitReady: Wait returns as soon as one runner has returned
\* an error.
WaitReadyFirstError ==
    \/ \E c \in run.launched : runner[c].pc = "returned" /\ runner[c].err # NoErr
    \/ \A c \in run.launched : runner[c].pc = "returned"

\* errgroup.Group.Wait: blocks until every goroutine of the group has returned;
\* its result is the first non-nil error a goroutine returned (run.err, set
\* by RunnerReturn as errgroup's errOnce does)
WaitReady == \A c \in run.launched : runner[c].pc = "returned"

RunReturn ==
    /\ run.pc = "waiting"
    /\ WaitReady
    /\ run' = [run EXCEPT !.pc = "returned"]
    /\ isRunning' = FALSE
    /\ UNCHANGED <<chains, logsCh, ctxDone, rpc, sent, scenario, addCall, retry, plan, calls>>
    /\ UNCHANGED cvars

\* the caller cancels the context it passed to Run
CancelParent ==
    /\ run.pc = "waiting"
    /\ ~ctxDone
    /\ ctxDone' = TRUE
    /\ UNCHANGED <<chains, logsCh, isRunning, run, rpc, sent, scenario, addCall, retry, plan, calls>>
    /\ UNCHANGED cvars

\* ------------------------------------------------------------------- RPC
\* rpcCtx is a child of ctx: done once rpcCancel() ran or the parent is done
RpcCtxDone(c) == runner[c].cancelled \/ ctxDone

\* The ways a retried RPC call can end in an error: the endpoint fails (a
\* non-retryable error or attempts exhausted; bounded by MaxFailures), or the
\* context the call runs under is already cancelled.
FailCauses(c, cancelled) ==
    (IF rpc[c].fails < FailBudget(scenario, c) THEN {"rpc"} ELSE {})
    \cup (IF cancelled THEN {"ctx"} ELSE {})

RpcAfterFail(c, cause) ==
    IF cause = "rpc" THEN [rpc EXCEPT ![c].fails = @ + 1] ELSE rpc

\* GetBlock(n): the header of block n on the endpoint's current chain.  For a
\* block the endpoint does not have (n above rpc[c].tip) eth_getBlockByNumber
\* answers with result null, which GetBlock decodes into the zero Block and
\* returns without error: Hash and ParentHash are "".
BlockHash(c, n) == IF n > rpc[c].tip THEN NoHash ELSE rpc[c].hash[n]
ParentHash(c, n) ==
    IF n = 0 \/ n > rpc[c].tip THEN NoHash ELSE rpc[c].hash[n - 1]

\* the arbiter's next step is a GetBlock call
AboutToGetBlock(c) ==
    \/ arbiter[c].pc = "loop" /\ arbiter[c].next \in DOMAIN arbiter[c].window
    \/ arbiter[c].pc \in {"endhash", "reorg"}

\* the endpoint's chain reorganises from block k upwards (block hashes are
\* observed through GetBlock only, so the change is taken right before a call)
ChainReorg(c, k) ==
    /\ c \in DOMAIN chains
    /\ AboutToGetBlock(c)
    /\ rpc[c].reorgs < ReorgBudget(scenario, c)
    /\ rpc' = [rpc EXCEPT ![c].reorgs = @ + 1,
                          ![c].hash = [b \in DOMAIN @ |->
                                         IF b >= k THEN 3 - @[b] ELSE @[b]]]
    /\ UNCHANGED <<sent, scenario, addCall, retry, plan, calls>>
    /\ UNCHANGED pvars
    /\ UNCHANGED cvars

\* the endpoint loses the blocks from k upwards (it now answers from a node
\* whose chain ends at k - 1): GetBlock for them yields the zero Block
ChainShrinks(c, k) ==
    /\ c \in DOMAIN chains
    /\ AboutToGetBlock(c)
    /\ rpc[c].reorgs < ReorgBudget(scenario, c)
    /\ k - 1 < rpc[c].tip
    /\ rpc' = [rpc EXCEPT ![c].reorgs = @ + 1, ![c].tip = k - 1]
    /\ UNCHANGED <<sent, scenario, addCall, retry, plan, calls>>
    /\ UNCHANGED pvars
    /\ UNCHANGED cvars

\* ---------------------------------------------------------------- runChain
\* Faulty variant of Target: the subtraction is not guarded.
TargetUnguarded(head, conf) == head - conf

Target(head, conf) == IF head > conf THEN head - conf ELSE 0

WorkerCount(opts) ==
    IF opts.FetcherConcurrency <= 0 THEN 1 ELSE opts.FetcherConcurrency

\* Faulty variant of RunnerReturns: the runner's error is logged and not
\* handed to the errgroup.
RunnerReturnsErrorDropped(c, e) ==
    /\ runner' = [runner EXCEPT ![c].pc = "returned", ![c].err = e,
                                ![c].then = "none", ![c].atCancel = ctxDone,
                                ![c].target = 0, ![c].cursor0 = 0,
                                ![c].cancelled = FALSE]
    /\ run' = run

\* a chain runner returns err to the errgroup of Run
RunnerReturns(c, e) ==
    /\ runner' = [runner EXCEPT ![c].pc = "returned", ![c].err = e,
                                ![c].then = "none", ![c].atCancel = ctxDone,
                                ![c].target = 0, ![c].cursor0 = 0,
                                ![c].cancelled = FALSE]
    /\ run' = IF run.err = NoErr THEN [run EXCEPT !.err = e] ELSE run

\* epoch start: Head() succeeded with head h; target is computed and the
\* planner, the workers, the closer and the arbiter are launched
HeadOk(c, h) ==
    /\ runner[c].pc = "head"
    /\ h \in Heads(scenario, c)
    /\ LET opts == chains[c].opts
           n == WorkerCount(opts)
       IN  /\ runner' = [runner EXCEPT ![c].pc = "select",
                              ![c].target = Target(h, opts.Confimation),
                              ![c].cursor0 = chains[c].cursor]
           /\ planner' = [planner EXCEPT ![c] = [IdlePlanner EXCEPT !.pc = "start"]]
           /\ jobs' = [jobs EXCEPT ![c] = EmptyChan]
           /\ workers' = [workers EXCEPT ![c] =
                  [w \in 1..MaxWorkers |->
                      IF w <= n THEN [IdleWorker EXCEPT !.pc = "recv"]
                      ELSE IdleWorker]]
           /\ errCh' = [errCh EXCEPT ![c] = <<>>]
           /\ doneCh' = [doneCh EXCEPT ![c] = EmptyChan]
           /\ done' = [done EXCEPT ![c] = FALSE]
           /\ arbiter' = [arbiter EXCEPT ![c] = [IdleArbiter EXCEPT !.pc = "start"]]
           /\ sent' = [sent EXCEPT ![c] = <<>>]
    /\ UNCHANGED <<rpc, scenario, addCall, retry, plan, calls>>
    /\ UNCHANGED pvars

\* epoch start: the retried Head() (or decoding its result) ends in an error:
\* rpcCancel(); return err
HeadFail(c, cause) ==
    /\ runner[c].pc = "head"
    /\ cause \in FailCauses(c, RpcCtxDone(c))
    /\ rpc' = RpcAfterFail(c, cause)
    /\ RunnerReturns(c, Err(cause, "head"))
    /\ UNCHANGED <<chains, logsCh, isRunning, ctxDone, planner, jobs, workers,
                   errCh, doneCh, done, arbiter, sent, scenario, addCall, retry, plan, calls>>

\* the runner's select; each branch first waits for done and arbiterDone
SelectEpochDone(c) ==
    /\ runner[c].pc = "select"
    /\ RpcCtxDone(c)
    /\ runner' = [runner EXCEPT ![c].pc = "drain", ![c].then = "continue"]
    /\ UNCHANGED <<planner, jobs, workers, errCh, doneCh, done, arbiter,
                   rpc, sent, scenario, addCall, retry, plan, calls>>
    /\ UNCHANGED pvars

SelectDone(c) ==
    /\ runner[c].pc = "select"
    /\ done[c]
    /\ runner' = [runner EXCEPT ![c].pc = "drain", ![c].then = "continue"]
    /\ UNCHANGED <<planner, jobs, workers, errCh, doneCh, done, arbiter,
                   rpc, sent, scenario, addCall, retry, plan, calls>>
    /\ UNCHANGED pvars

SelectErr(c) ==
    /\ runner[c].pc = "select"
    /\ errCh[c] # <<>>
    /\ runner' = [runner EXCEPT ![c].pc = "drain", ![c].then = "err",
                                ![c].err = Head(errCh[c]),
                                ![c].cancelled = TRUE]
    /\ errCh' = [errCh EXCEPT ![c] = <<>>]
    /\ UNCHANGED <<planner, jobs, workers, doneCh, done, arbiter,
                   rpc, sent, scenario, addCall, retry, plan, calls>>
    /\ UNCHANGED pvars

SelectParentDone(c) ==
    /\ runner[c].pc = "select"
    /\ ctxDone
    /\ runner' = [runner EXCEPT ![c].pc = "drain", ![c].then = "nil",
                                ![c].cancelled = TRUE]
    /\ UNCHANGED <<planner, jobs, workers, errCh, doneCh, done, arbiter,
                   rpc, sent, scenario, addCall, retry, plan, calls>>
    /\ UNCHANGED pvars

Drained(c) == done[c] /\ arbiter[c].pc = "exit"

\* the goroutines and channels of a drained epoch are unreachable
EpochGone(c) ==
    /\ planner' = [planner EXCEPT ![c] = IdlePlanner]
    /\ jobs' = [jobs EXCEPT ![c] = EmptyChan]
    /\ workers' = [workers EXCEPT ![c] = [w \in 1..MaxWorkers |-> IdleWorker]]
    /\ errCh' = [errCh EXCEPT ![c] = <<>>]
    /\ doneCh' = [doneCh EXCEPT ![c] = EmptyChan]
    /\ done' = [done EXCEPT ![c] = FALSE]
    /\ arbiter' = [arbiter EXCEPT ![c] = IdleArbiter]
    /\ sent' = [sent EXCEPT ![c] = <<>>]

\* Faulty variant of DrainContinue: the next epoch restarts from
\* opts.StartBlock instead of keeping chain.cursor.
DrainContinueFromStart(c) ==
    /\ runner[c].pc = "drain"
    /\ runner[c].then = "continue"
    /\ Drained(c)
    /\ runner' = [runner EXCEPT ![c].pc = "head", ![c].then = "none",
                                ![c].cancelled = FALSE, ![c].target = 0,
                                ![c].cursor0 = 0,
                                ![c].rewound = IF arbiter[c].reorgAt # 0
                                               THEN @ ELSE -1]
    /\ chains' = [chains EXCEPT ![c].cursor = chains[c].opts.StartBlock]
    /\ EpochGone(c)
    /\ UNCHANGED <<logsCh, isRunning, run, ctxDone, rpc, scenario, addCall, retry, plan, calls>>

\* <-done; <-arbiterDone; continue outer (a fresh rpcCtx for the next epoch)
DrainContinue(c) ==
    /\ runner[c].pc = "drain"
    /\ runner[c].then = "continue"
    /\ Drained(c)
    /\ runner' = [runner EXCEPT ![c].pc = "head", ![c].then = "none",
                                ![c].cancelled = FALSE, ![c].target = 0,
                                ![c].cursor0 = 0,
                                ![c].rewound = IF arbiter[c].reorgAt # 0
                                               THEN @ ELSE -1]
    /\ EpochGone(c)
    /\ UNCHANGED <<rpc, scenario, addCall, retry, plan, calls>>
    /\ UNCHANGED pvars

\* <-done; <-arbiterDone; return err / return nil
DrainReturn(c) ==
    /\ runner[c].pc = "drain"
    /\ runner[c].then \in {"err", "nil"}
    /\ Drained(c)
    /\ RunnerReturns(c, IF runner[c].then = "err" THEN runner[c].err ELSE NoErr)
    /\ EpochGone(c)
    /\ UNCHANGED <<chains, logsCh, isRunning, ctxDone, rpc, scenario, addCall, retry, plan, calls>>

\* ----------------------------------------------------------------- planner
\* Faulty variant of PlannerStart: planning resumes after the last window
\* whose hash is in the store instead of after chain.cursor.
PlannerStartAfterStoredWindow(c) ==
    /\ planner[c].pc = "start"
    /\ LET from == IF chains[c].windowOrder # <<>>
                   THEN Last(chains[c].windowOrder) + 1
                   ELSE chains[c].cursor + 1
       IN  planner' = [planner EXCEPT ![c] = [pc |-> "loop",
                                              from |-> from,
                                              first |-> from]]
    /\ UNCHANGED <<runner, jobs, workers, errCh, doneCh, done, arbiter,
                   rpc, sent, scenario, addCall, retry, plan, calls>>
    /\ UNCHANGED pvars

\* the planner's arithmetic (uint64): from := chain.cursor + 1; to := from +
\* rs - 1, cut at target; from += rs
\* Faulty variant of PlanFirst: planning starts at the cursor itself.
PlanFirstAtCursor(cursor) == cursor

PlanFirst(cursor) == (cursor + 1) % Uint64

\* Faulty variant of PlanTo: the last range is not cut at target.
PlanToUncut(from, rs, target) == (from + rs - 1) % Uint64

PlanTo(from, rs, target) ==
    LET to == (from + rs - 1) % Uint64
    IN  IF to > target THEN target ELSE to

PlanNext(from, rs) == (from + rs) % Uint64

\* the planning goroutine reads chain.cursor when it starts
PlannerStart(c) ==
    /\ planner[c].pc = "start"
    /\ planner' = [planner EXCEPT ![c] = [pc |-> "loop",
                                          from |-> PlanFirst(chains[c].cursor),
                                          first |-> PlanFirst(chains[c].cursor)]]
    /\ UNCHANGED <<runner, jobs, workers, errCh, doneCh, done, arbiter,
                   rpc, sent, scenario, addCall, retry, plan, calls>>
    /\ UNCHANGED pvars

\* from > target: the loop ends and the deferred close(jobs) runs
PlannerFinish(c) ==
    /\ planner[c].pc = "loop"
    /\ planner[c].from > runner[c].target
    /\ planner' = [planner EXCEPT ![c].pc = "exit"]
    /\ jobs' = [jobs EXCEPT ![c].closed = TRUE]
    /\ UNCHANGED <<runner, workers, errCh, doneCh, done, arbiter,
                   rpc, sent, scenario, addCall, retry, plan, calls>>
    /\ UNCHANGED pvars

\* select case <-rpcCtx.Done(): return (close(jobs))
PlannerCancelled(c) ==
    /\ planner[c].pc = "loop"
    /\ planner[c].from <= runner[c].target
    /\ RpcCtxDone(c)
    /\ planner' = [planner EXCEPT ![c].pc = "exit"]
    /\ jobs' = [jobs EXCEPT ![c].closed = TRUE]
    /\ UNCHANGED <<runner, workers, errCh, doneCh, done, arbiter,
                   rpc, sent, scenario, addCall, retry, plan, calls>>
    /\ UNCHANGED pvars

\* select case jobs <- blockRange{from, to}
PlannerSend(c) ==
    /\ planner[c].pc = "loop"
    /\ planner[c].from <= runner[c].target
    /\ Len(jobs[c].q) < WorkerCount(chains[c].opts)
    /\ LET rs == chains[c].opts.RangeSize
           from == planner[c].from
       IN  /\ jobs' = [jobs EXCEPT ![c].q =
                          Append(@, [from |-> from,
                                     to |-> PlanTo(from, rs, runner[c].target)])]
           /\ planner' = [planner EXCEPT ![c].from = PlanNext(from, rs)]
    /\ UNCHANGED <<runner, workers, errCh, doneCh, done, arbiter,
                   rpc, sent, scenario, addCall, retry, plan, calls>>
    /\ UNCHANGED pvars

\* ----------------------------------------------------------- fetch workers
\* The logs of the chain are data of the endpoint: block b carries
\* LogsIn(b) logs, numbered in the order the RPC returns them, all with the
\* event topic TopicOf(b).
LogsIn(b) == b % (MaxLogs + 1)
TopicOf(b) == IF b % 2 = 0 THEN "T" ELSE "U"
BlockLogs(b) == [i \in 1..LogsIn(b) |-> [block |-> b, idx |-> i, topic |-> TopicOf(b)]]

\* matchesTopicFilter: no topic configured, or topics[0] is one of them
matchesTopicFilter(log, topics) ==
    \/ Len(topics) = 0
    \/ \E i \in 1..Len(topics) : topics[i] = log.topic

SelectSeq2(seq, topics) ==
    LET Keep(l) == matchesTopicFilter(l, topics) IN SelectSeq(seq, Keep)

\* what a fetch of [from, to] yields: the matching logs, block by block
RECURSIVE FetchedLogs(_, _, _)
FetchedLogs(from, to, topics) ==
    IF from > to THEN <<>>
    ELSE SelectSeq2(BlockLogs(from), topics) \o FetchedLogs(from + 1, to, topics)

\* the same value, found without walking the range when the filter retains
\* no log of it
RangeLogs(from, to, topics) ==
    IF \A b \in from..to : \A i \in 1..LogsIn(b) :
           ~matchesTopicFilter(BlockLogs(b)[i], topics)
    THEN <<>>
    ELSE FetchedLogs(from, to, topics)

\* select { case errCh <- err: default: }
Publish(ch, e) == IF ch = <<>> THEN <<e>> ELSE ch

\* for job := range jobs
WorkerRecv(c, w) ==
    /\ workers[c][w].pc = "recv"
    /\ jobs[c].q # <<>>
    /\ workers' = [workers EXCEPT ![c][w].pc = "fetch",
                                  ![c][w].job = Head(jobs[c].q)]
    /\ jobs' = [jobs EXCEPT ![c].q = Tail(@)]
    /\ UNCHANGED <<runner, planner, errCh, doneCh, done, arbiter,
                   rpc, sent, scenario, addCall, retry, plan, calls>>
    /\ UNCHANGED pvars

\* jobs closed and drained: the worker returns (wg.Done)
WorkerJobsClosed(c, w) ==
    /\ workers[c][w].pc = "recv"
    /\ jobs[c].q = <<>>
    /\ jobs[c].closed
    /\ workers' = [workers EXCEPT ![c][w].pc = "exit"]
    /\ UNCHANGED <<runner, planner, jobs, errCh, doneCh, done, arbiter,
                   rpc, sent, scenario, addCall, retry, plan, calls>>
    /\ UNCHANGED pvars

\* the retried GetLogs / receipts fetch returns the logs of the range
WorkerFetchOk(c, w) ==
    /\ workers[c][w].pc = "fetch"
    /\ workers' = [workers EXCEPT ![c][w].pc = "send",
                      ![c][w].logs = FetchedLogs(workers[c][w].job.from,
                                                 workers[c][w].job.to,
                                                 chains[c].topics)]
    /\ UNCHANGED <<runner, planner, jobs, errCh, doneCh, done, arbiter,
                   rpc, sent, scenario, addCall, retry, plan, calls>>
    /\ UNCHANGED pvars

\* the retry executor gives up: publish on errCh if the slot is free, return
WorkerFetchFail(c, w, cause) ==
    /\ workers[c][w].pc = "fetch"
    /\ cause \in FailCauses(c, RpcCtxDone(c))
    /\ rpc' = RpcAfterFail(c, cause)
    /\ errCh' = [errCh EXCEPT ![c] = Publish(@, Err(cause, "worker"))]
    /\ runner' = [runner EXCEPT ![c].workerErr = @ \/ errCh[c] = <<>>]
    /\ workers' = [workers EXCEPT ![c][w] = [IdleWorker EXCEPT !.pc = "exit"]]
    /\ UNCHANGED <<planner, jobs, doneCh, done, arbiter, sent, scenario, addCall, retry, plan, calls>>
    /\ UNCHANGED pvars

\* Faulty variant of WorkerSend: the result channel takes any number of
\* results.
WorkerSendNoCapacity(c, w) ==
    /\ workers[c][w].pc = "send"
    /\ doneCh' = [doneCh EXCEPT ![c].q =
                     Append(@, [from |-> workers[c][w].job.from,
                                to |-> workers[c][w].job.to,
                                logs |-> workers[c][w].logs])]
    /\ workers' = [workers EXCEPT ![c][w] = [IdleWorker EXCEPT !.pc = "recv"]]
    /\ UNCHANGED <<runner, planner, jobs, errCh, done, arbiter,
                   rpc, sent, scenario, addCall, retry, plan, calls>>
    /\ UNCHANGED pvars

\* select case doneCh <- doneMsg{from, to, logs}
WorkerSend(c, w) ==
    /\ workers[c][w].pc = "send"
    /\ Len(doneCh[c].q) < WorkerCount(chains[c].opts)
    /\ doneCh' = [doneCh EXCEPT ![c].q =
                     Append(@, [from |-> workers[c][w].job.from,
                                to |-> workers[c][w].job.to,
                                logs |-> workers[c][w].logs])]
    /\ workers' = [workers EXCEPT ![c][w] = [IdleWorker EXCEPT !.pc = "recv"]]
    /\ UNCHANGED <<runner, planner, jobs, errCh, done, arbiter,
                   rpc, sent, scenario, addCall, retry, plan, calls>>
    /\ UNCHANGED pvars

\* select case <-rpcCtx.Done(): return
WorkerSendCancelled(c, w) ==
    /\ workers[c][w].pc = "send"
    /\ RpcCtxDone(c)
    /\ workers' = [workers EXCEPT ![c][w] = [IdleWorker EXCEPT !.pc = "exit"]]
    /\ UNCHANGED <<runner, planner, jobs, errCh, doneCh, done, arbiter,
                   rpc, sent, scenario, addCall, retry, plan, calls>>
    /\ UNCHANGED pvars

\* the closer goroutine: wg.Wait(); close(doneCh); close(done)
WorkersDone(c) ==
    \A w \in 1..WorkerCount(chains[c].opts) : workers[c][w].pc = "exit"

CloseDoneCh(c) ==
    /\ runner[c].pc \in {"select", "drain"}
    /\ WorkersDone(c)
    /\ ~doneCh[c].closed
    /\ doneCh' = [doneCh EXCEPT ![c].closed = TRUE]
    /\ UNCHANGED <<runner, planner, jobs, workers, errCh, done, arbiter,
                   rpc, sent, scenario, addCall, retry, plan, calls>>
    /\ UNCHANGED pvars

CloseDone(c) ==
    /\ doneCh[c].closed
    /\ ~done[c]
    /\ done' = [done EXCEPT ![c] = TRUE]
    /\ UNCHANGED <<runner, planner, jobs, workers, errCh, doneCh, arbiter,
                   rpc, sent, scenario, addCall, retry, plan, calls>>
    /\ UNCHANGED pvars

\* ----------------------------------------------------------------- arbiter
ArbiterExit(a) == [IdleArbiter EXCEPT !.pc = "exit", !.ncommit = a.ncommit,
                                      !.reorgAt = a.reorgAt,
                                      !.ancestor = a.ancestor,
                                      !.how = a.how]

\* next := chain.cursor + 1
ArbiterStart(c) ==
    /\ arbiter[c].pc = "start"
    /\ arbiter' = [arbiter EXCEPT ![c].pc = "select",
                                  ![c].next = chains[c].cursor + 1]
    /\ UNCHANGED <<runner, planner, jobs, workers, errCh, doneCh, done,
                   rpc, sent, scenario, addCall, retry, plan, calls>>
    /\ UNCHANGED pvars

\* select case <-rpcCtx.Done(): return
ArbiterCancelled(c) ==
    /\ arbiter[c].pc = "select"
    /\ RpcCtxDone(c)
    /\ arbiter' = [arbiter EXCEPT ![c] = ArbiterExit(@)]
    /\ UNCHANGED <<runner, planner, jobs, workers, errCh, doneCh, done,
                   rpc, sent, scenario, addCall, retry, plan, calls>>
    /\ UNCHANGED pvars

\* Faulty variant of ArbiterRecv: the arbiter turns to the window that has
\* just arrived instead of the one at next.
ArbiterRecvArrivalOrder(c) ==
    /\ arbiter[c].pc = "select"
    /\ doneCh[c].q # <<>>
    /\ LET dm == Head(doneCh[c].q)
       IN  arbiter' = [arbiter EXCEPT ![c].pc = "loop",
                          ![c].next = dm.from,
                          ![c].window = MapPut(@, dm.from,
                                               [to |-> dm.to, logs |-> dm.logs])]
    /\ doneCh' = [doneCh EXCEPT ![c].q = Tail(@)]
    /\ UNCHANGED <<runner, planner, jobs, workers, errCh, done,
                   rpc, sent, scenario, addCall, retry, plan, calls>>
    /\ UNCHANGED pvars

\* select case dm, ok := <-doneCh with ok: window[dm.from] = dm.to, logs
ArbiterRecv(c) ==
    /\ arbiter[c].pc = "select"
    /\ doneCh[c].q # <<>>
    /\ LET dm == Head(doneCh[c].q)
       IN  arbiter' = [arbiter EXCEPT ![c].pc = "loop",
                          ![c].window = MapPut(@, dm.from,
                                               [to |-> dm.to, logs |-> dm.logs])]
    /\ doneCh' = [doneCh EXCEPT ![c].q = Tail(@)]
    /\ UNCHANGED <<runner, planner, jobs, workers, errCh, done,
                   rpc, sent, scenario, addCall, retry, plan, calls>>
    /\ UNCHANGED pvars

\* Faulty variant of ArbiterClosed: the arbiter returns as soon as doneCh is
\* closed, leaving the results still buffered in it.
ArbiterClosedDropsBuffered(c) ==
    /\ arbiter[c].pc = "select"
    /\ doneCh[c].closed
    /\ arbiter' = [arbiter EXCEPT ![c] = ArbiterExit(@)]
    /\ UNCHANGED <<runner, planner, jobs, workers, errCh, doneCh, done,
                   rpc, sent, scenario, addCall, retry, plan, calls>>
    /\ UNCHANGED pvars

\* select case dm, ok := <-doneCh with !ok: return
ArbiterClosed(c) ==
    /\ arbiter[c].pc = "select"
    /\ doneCh[c].q = <<>>
    /\ doneCh[c].closed
    /\ arbiter' = [arbiter EXCEPT ![c] = ArbiterExit(@)]
    /\ UNCHANGED <<runner, planner, jobs, workers, errCh, doneCh, done,
                   rpc, sent, scenario, addCall, retry, plan, calls>>
    /\ UNCHANGED pvars

\* the inner for loop ends: window[next] is missing
ArbiterLoopEnd(c) ==
    /\ arbiter[c].pc = "loop"
    /\ arbiter[c].next \notin DOMAIN arbiter[c].window
    /\ arbiter' = [arbiter EXCEPT ![c].pc = "select"]
    /\ UNCHANGED <<runner, planner, jobs, workers, errCh, doneCh, done,
                   rpc, sent, scenario, addCall, retry, plan, calls>>
    /\ UNCHANGED pvars

\* Faulty variant of Mismatch: the lookup's ok flag is not consulted, so a
\* missing entry compares as the empty hash.
MismatchIgnoresOk(cs, next, parentHash) ==
    parentHash # Lookup(cs.storedWindowHash, next - 1)

\* the parent check: a hash is stored for next-1 and differs
Mismatch(cs, next, parentHash) ==
    /\ (next - 1) \in DOMAIN cs.storedWindowHash
    /\ parentHash # cs.storedWindowHash[next - 1]

\* Faulty variant of ArbiterExamine: on a mismatch the epoch context is not
\* cancelled.
ArbiterExamineNoCancel(c) ==
    /\ arbiter[c].pc = "loop"
    /\ arbiter[c].next \in DOMAIN arbiter[c].window
    /\ LET next == arbiter[c].next
           end == arbiter[c].window[next].to
       IN  IF next = 0
           THEN arbiter' = [arbiter EXCEPT ![c].pc = "select"]
           ELSE IF Mismatch(chains[c], next, ParentHash(c, next))
           THEN arbiter' = [arbiter EXCEPT ![c].pc = "reorg",
                               ![c].end = end,
                               ![c].ancestor = chains[c].cursor,
                               ![c].iter = 0,
                               ![c].reorgAt = next]
           ELSE arbiter' = [arbiter EXCEPT ![c].pc = "emit",
                               ![c].end = end, ![c].i = 1]
    /\ UNCHANGED <<runner, planner, jobs, workers, errCh, doneCh, done,
                   rpc, sent, scenario, addCall, retry, plan, calls>>
    /\ UNCHANGED pvars

\* window[next] exists and GetBlock(next) succeeded: compare to the parent;
\* on a mismatch rpcCancel() and enter handleReorg, else start emitting
ArbiterExamine(c) ==
    /\ arbiter[c].pc = "loop"
    /\ arbiter[c].next \in DOMAIN arbiter[c].window
    /\ LET next == arbiter[c].next
           end == arbiter[c].window[next].to
       IN  IF next = 0
           THEN /\ arbiter' = [arbiter EXCEPT ![c].pc = "select"]
                /\ UNCHANGED runner
           ELSE IF Mismatch(chains[c], next, ParentHash(c, next))
           THEN /\ runner' = [runner EXCEPT ![c].cancelled = TRUE]
                /\ arbiter' = [arbiter EXCEPT ![c].pc = "reorg",
                                   ![c].end = end,
                                   ![c].ancestor = chains[c].cursor,
                                   ![c].iter = 0,
                                   ![c].reorgAt = next]
           ELSE /\ arbiter' = [arbiter EXCEPT ![c].pc = "emit",
                                   ![c].end = end, ![c].i = 1]
                /\ UNCHANGED runner
    /\ UNCHANGED <<planner, jobs, workers, errCh, doneCh, done,
                   rpc, sent, scenario, addCall, retry, plan, calls>>
    /\ UNCHANGED pvars

\* a retried GetBlock of the arbiter ends in an error: return silently when
\* rpcCtx is cancelled, else publish on errCh (if the slot is free) and return
ArbiterGetBlockFail(c, cause) ==
    /\ \/ arbiter[c].pc = "loop" /\ arbiter[c].next \in DOMAIN arbiter[c].window
       \/ arbiter[c].pc = "endhash"
    /\ cause \in FailCauses(c, RpcCtxDone(c))
    /\ rpc' = RpcAfterFail(c, cause)
    /\ errCh' = [errCh EXCEPT ![c] =
                    IF RpcCtxDone(c) THEN @ ELSE Publish(@, Err(cause, "arbiter"))]
    /\ arbiter' = [arbiter EXCEPT ![c] = ArbiterExit(@)]
    /\ UNCHANGED <<runner, planner, jobs, workers, doneCh, done, sent, scenario, addCall, retry, plan, calls>>
    /\ UNCHANGED pvars

\* select case logsCh <- l (the next log of windowLogs[next])
ArbiterEmit(c) ==
    /\ arbiter[c].pc = "emit"
    /\ LET logs == arbiter[c].window[arbiter[c].next].logs
           i == arbiter[c].i
       IN  /\ i <= Len(logs)
           /\ Len(logsCh[c]) < chains[c].opts.LogsBufferSize
           /\ logsCh' = [logsCh EXCEPT ![c] = Append(@, logs[i])]
           /\ sent' = [sent EXCEPT ![c] = Append(@, logs[i])]
           /\ arbiter' = [arbiter EXCEPT ![c].i = i + 1]
    /\ UNCHANGED <<chains, isRunning, run, ctxDone, runner, planner, jobs,
                   workers, errCh, doneCh, done, rpc, scenario, addCall, retry, plan, calls>>

\* Faulty variant of ArbiterEmitCancelled: the send to the output channel
\* does not watch the epoch context.
ArbiterEmitIgnoresCancel(c) ==
    /\ FALSE
    /\ UNCHANGED vars

\* select case <-rpcCtx.Done(): return (between two sends)
ArbiterEmitCancelled(c) ==
    /\ arbiter[c].pc = "emit"
    /\ arbiter[c].i <= Len(arbiter[c].window[arbiter[c].next].logs)
    /\ RpcCtxDone(c)
    /\ arbiter' = [arbiter EXCEPT ![c] = ArbiterExit(@)]
    /\ UNCHANGED <<runner, planner, jobs, workers, errCh, doneCh, done,
                   rpc, sent, scenario, addCall, retry, plan, calls>>
    /\ UNCHANGED pvars

\* Faulty variant of ArbiterCommit: the window is committed once the last log
\* is reached, not once it is sent.
ArbiterCommitEarly(c) ==
    /\ arbiter[c].pc = "emit"
    /\ LET next == arbiter[c].next
           logs == arbiter[c].window[next].logs
       IN  /\ arbiter[c].i >= Len(logs)
           /\ chains' = [chains EXCEPT ![c].cursor = arbiter[c].end]
           /\ arbiter' = [arbiter EXCEPT ![c].pc = "endhash",
                              ![c].window = MapDelete(@, {next}),
                              ![c].next = arbiter[c].end + 1,
                              ![c].i = 0,
                              ![c].committed = logs,
                              ![c].ncommit = Min(@ + 1, 1)]
    /\ UNCHANGED <<logsCh, isRunning, run, ctxDone, runner, planner, jobs,
                   workers, errCh, doneCh, done, rpc, sent, scenario, addCall, retry, plan, calls>>

\* Faulty variant of ArbiterCommit: the committed window stays in the
\* arbiter's map and next is not advanced.
ArbiterCommitKeepsWindow(c) ==
    /\ arbiter[c].pc = "emit"
    /\ LET next == arbiter[c].next
           logs == arbiter[c].window[next].logs
       IN  /\ arbiter[c].i > Len(logs)
           /\ chains' = [chains EXCEPT ![c].cursor = arbiter[c].end]
           /\ arbiter' = [arbiter EXCEPT ![c].pc = "endhash",
                              ![c].i = 0,
                              ![c].committed = logs,
                              ![c].ncommit = Min(@ + 1, 1)]
    /\ UNCHANGED <<logsCh, isRunning, run, ctxDone, runner, planner, jobs,
                   workers, errCh, doneCh, done, rpc, sent, scenario, addCall, retry, plan, calls>>

\* every log sent: delete the window, chain.cursor = end, next = end + 1
ArbiterCommit(c) ==
    /\ arbiter[c].pc = "emit"
    /\ LET next == arbiter[c].next
           logs == arbiter[c].window[next].logs
       IN  /\ arbiter[c].i > Len(logs)
           /\ chains' = [chains EXCEPT ![c].cursor = arbiter[c].end]
           /\ arbiter' = [arbiter EXCEPT ![c].pc = "endhash",
                              ![c].window = MapDelete(@, {next}),
                              ![c].next = arbiter[c].end + 1,
                              ![c].i = 0,
                              ![c].committed = logs,
                              ![c].ncommit = Min(@ + 1, 1)]
    /\ UNCHANGED <<logsCh, isRunning, run, ctxDone, runner, planner, jobs,
                   workers, errCh, doneCh, done, rpc, sent, scenario, addCall, retry, plan, calls>>

\* Faulty variant of ArbiterEndHash: the hash of the window's last block is
\* fetched but not stored.
ArbiterEndHashNotStored(c) ==
    /\ arbiter[c].pc = "endhash"
    /\ arbiter' = [arbiter EXCEPT ![c].pc = "loop", ![c].committed = <<>>]
    /\ UNCHANGED <<runner, planner, jobs, workers, errCh, doneCh, done,
                   rpc, sent, scenario, addCall, retry, plan, calls>>
    /\ UNCHANGED pvars

\* GetBlock(end) succeeded: storeWindowHash(end, block.Hash)
ArbiterEndHash(c) ==
    /\ arbiter[c].pc = "endhash"
    /\ chains' = [chains EXCEPT ![c] =
                     storeWindowHash(arbiter[c].end,
                                     BlockHash(c, arbiter[c].end), @)]
    /\ arbiter' = [arbiter EXCEPT ![c].pc = "loop", ![c].committed = <<>>]
    /\ UNCHANGED <<logsCh, isRunning, run, ctxDone, runner, planner, jobs,
                   workers, errCh, doneCh, done, rpc, sent, scenario, addCall, retry, plan, calls>>

\* ------------------------------------------------------------- handleReorg
Fallback(cs) ==
    IF cs.cursor > cs.hardFallbackBlocks
    THEN cs.cursor - cs.hardFallbackBlocks ELSE 0

\* handleReorg returns r (after the store was trimmed or not); the arbiter
\* sets chain.cursor = r and returns
ReorgReturn(c, cs, r, how) ==
    /\ chains' = [chains EXCEPT ![c] = [cs EXCEPT !.cursor = r]]
    /\ arbiter' = [arbiter EXCEPT ![c] =
                      ArbiterExit([@ EXCEPT !.ancestor = r, !.how = how])]
    /\ runner' = [runner EXCEPT ![c].rewound = r]

\* one iteration of the search loop whose GetBlock(ancestor+1) succeeded
\* (or the loop bound is reached)
HandleReorgStep(c) ==
    /\ arbiter[c].pc = "reorg"
    /\ LET cs == chains[c]
           a == arbiter[c].ancestor
           rs == cs.opts.RangeSize
       IN  IF arbiter[c].iter >= cs.storedWindowHashCap
           THEN ReorgReturn(c, dropWindowHash(Fallback(cs), cs), Fallback(cs),
                            "fallback")
           ELSE IF ParentHash(c, a + 1) = Lookup(cs.storedWindowHash, a)
           THEN ReorgReturn(c, dropWindowHash(a, cs), a, "ancestor")
           ELSE IF a < rs
           THEN ReorgReturn(c, dropWindowHash(Fallback(cs), cs), Fallback(cs),
                            "fallback")
           ELSE IF ctxDone
           THEN ReorgReturn(c, cs, Fallback(cs), "error")
           ELSE /\ arbiter' = [arbiter EXCEPT ![c].ancestor = a - rs,
                                              ![c].iter = @ + 1]
                /\ UNCHANGED <<chains, runner>>
    /\ UNCHANGED <<logsCh, isRunning, run, ctxDone, planner, jobs, workers,
                   errCh, doneCh, done, rpc, sent, scenario, addCall, retry, plan, calls>>

\* GetBlock(ancestor+1) under the parent context fails: return fallback
HandleReorgFail(c, cause) ==
    /\ arbiter[c].pc = "reorg"
    /\ arbiter[c].iter < chains[c].storedWindowHashCap
    /\ cause \in FailCauses(c, ctxDone)
    /\ rpc' = RpcAfterFail(c, cause)
    /\ ReorgReturn(c, chains[c], Fallback(chains[c]), "error")
    /\ UNCHANGED <<logsCh, isRunning, run, ctxDone, planner, jobs, workers,
                   errCh, doneCh, done, sent, scenario, addCall, retry, plan, calls>>

\* ---------------------------------------------------------------- consumer
\* a reader of Logs(chainId) receives one log
Consume(c) ==
    /\ logsCh[c] # <<>>
    /\ logsCh' = [logsCh EXCEPT ![c] = Tail(@)]
    /\ UNCHANGED <<chains, isRunning, run, ctxDone, rpc, sent, scenario, addCall, retry, plan, calls>>
    /\ UNCHANGED cvars

\* ------------------------------------------------------- retry executor
\* errors.IsRetryableError and rpc.RetryWithBackoff.  An error value is an
\* HTTPError with its status code, an RPCError with its code, or some other
\* error (a context error, a transport error); nil is NoError.
MaxRetryAttempts == 3   \* largest RetryConfig.MaxAttempts explored

HttpStatuses == {200, 400, 429, 499, 500, 502, 509, 511, 599}
RpcCodes == {-32603, -32100, -32099, -32000, -31999}
Backoffs == {2, 4, 8}       \* InitialBackoff and MaxBackoff, in nanoseconds
Multipliers == {1, 2}

HTTPError(status) == [kind |-> "http", code |-> status]
RPCError(code) == [kind |-> "rpc", code |-> code]
OtherError == [kind |-> "other", code |-> 0]
ContextCanceled == [kind |-> "context", code |-> 0]    \* ctx.Err()
ErrorValues ==
    {HTTPError(st) : st \in HttpStatuses} \cup {RPCError(cd) : cd \in RpcCodes}
        \cup {OtherError}

\* Faulty variant of IsRetryableError: the RPC range excludes its lower end.
IsRetryableErrorOpenRange(err) ==
    IF err.kind = "http"
    THEN err.code \in {429, 502, 503, 504, 500, 501, 505, 506, 507, 508, 510, 511}
    ELSE IF err.kind = "rpc"
    THEN err.code > -32099 /\ err.code <= -32000
    ELSE FALSE

IsRetryableError(err) ==
    IF err.kind = "http"
    THEN err.code \in {429, 502, 503, 504, 500, 501, 505, 506, 507, 508, 510, 511}
    ELSE IF err.kind = "rpc"
    THEN err.code >= -32099 /\ err.code <= -32000
    ELSE FALSE

RetryConfigs ==
    [MaxAttempts : 0..MaxRetryAttempts, InitialBackoff : Backoffs,
     MaxBackoff : Backoffs, Multiplier : Multipliers, EnableJitter : BOOLEAN]

\* RetryWithBackoff(ctx, config, fn) is entered: backoff := InitialBackoff
RetryEntered(cfg) ==
    [NoRetry EXCEPT !.pc = "loop", !.cfg = cfg, !.backoff = cfg.InitialBackoff]

InitRetry ==
    /\ InitProcessor("retry")
    /\ retry \in {RetryEntered(cfg) : cfg \in RetryConfigs}
    /\ plan = NoPlan
    /\ calls = NoCall

RetryReturns(r, kind, e) ==
    [r EXCEPT !.pc = "returned", !.result = [kind |-> kind, wraps |-> e]]

\* rand.Int63n(int64(backoff / 4)): the values it can return; it panics when
\* its argument is not positive
Jitters(backoff) == 0..((backoff \div 4) - 1)

\* Faulty variant of RetryAttempt: a non-retryable error is retried like any
\* other.
RetryAttemptRetriesAll(e) ==
    /\ retry.pc = "loop"
    /\ retry.attempt < retry.cfg.MaxAttempts
    /\ LET r == [retry EXCEPT !.calls = @ + 1, !.lastErr = e,
                              !.verdict = IsRetryableError(e),
                              !.fails = IF IsRetryableError(e) THEN @ + 1 ELSE @]
       IN  IF e = NoError
           THEN retry' = RetryReturns(r, "nil", NoError)
           ELSE IF retry.attempt = retry.cfg.MaxAttempts - 1
           THEN retry' = RetryReturns(r, "max attempts", e)
           ELSE \E j \in (IF retry.cfg.EnableJitter THEN Jitters(retry.backoff) ELSE {0}) :
                   retry' = [r EXCEPT !.pc = "sleep",
                                      !.waits = Append(@, retry.backoff + j)]
    /\ UNCHANGED <<rpc, sent, scenario, addCall, plan, calls>>
    /\ UNCHANGED pvars
    /\ UNCHANGED cvars

\* Faulty variant of RetryAttempt: the wait also follows the final attempt.
RetryAttemptSleepsLast(e) ==
    /\ retry.pc = "loop"
    /\ retry.attempt < retry.cfg.MaxAttempts
    /\ LET r == [retry EXCEPT !.calls = @ + 1, !.lastErr = e,
                              !.verdict = IsRetryableError(e),
                              !.fails = IF IsRetryableError(e) THEN @ + 1 ELSE @]
       IN  IF e = NoError
           THEN retry' = RetryReturns(r, "nil", NoError)
           ELSE IF ~IsRetryableError(e)
           THEN retry' = RetryReturns(r, "non-retryable", e)
           ELSE \E j \in (IF retry.cfg.EnableJitter THEN Jitters(retry.backoff) ELSE {0}) :
                   retry' = [r EXCEPT !.pc = "sleep",
                                      !.waits = Append(@, retry.backoff + j)]
    /\ UNCHANGED <<rpc, sent, scenario, addCall, plan, calls>>
    /\ UNCHANGED pvars
    /\ UNCHANGED cvars

\* Faulty variant of RetryAttempt: the loop does not stop at a success.
RetryAttemptIgnoresSuccess(e) ==
    /\ retry.pc = "loop"
    /\ retry.attempt < retry.cfg.MaxAttempts
    /\ LET r == [retry EXCEPT !.calls = @ + 1, !.lastErr = e,
                              !.verdict = IsRetryableError(e),
                              !.fails = IF IsRetryableError(e) THEN @ + 1 ELSE @]
       IN  IF e = NoError /\ retry.attempt = retry.cfg.MaxAttempts - 1
           THEN retry' = RetryReturns(r, "nil", NoError)
           ELSE IF e = NoError
           THEN retry' = [r EXCEPT !.attempt = @ + 1]
           ELSE IF ~IsRetryableError(e)
           THEN retry' = RetryReturns(r, "non-retryable", e)
           ELSE IF retry.attempt = retry.cfg.MaxAttempts - 1
           THEN retry' = RetryReturns(r, "max attempts", e)
           ELSE \E j \in (IF retry.cfg.EnableJitter THEN Jitters(retry.backoff) ELSE {0}) :
                   retry' = [r EXCEPT !.pc = "sleep",
                                      !.waits = Append(@, retry.backoff + j)]
    /\ UNCHANGED <<rpc, sent, scenario, addCall, plan, calls>>
    /\ UNCHANGED pvars
    /\ UNCHANGED cvars

\* one pass of the loop body up to the select: lastErr = fn(); nil returns
\* nil; a non-retryable error returns at once; the last attempt breaks out of
\* the loop; otherwise wait := backoff (+ jitter) and the select is entered
RetryAttempt(e) ==
    /\ retry.pc = "loop"
    /\ retry.attempt < retry.cfg.MaxAttempts
    /\ LET r == [retry EXCEPT !.calls = @ + 1, !.lastErr = e,
                              !.verdict = IsRetryableError(e),
                              !.fails = IF IsRetryableError(e) THEN @ + 1 ELSE @]
       IN  IF e = NoError
           THEN retry' = RetryReturns(r, "nil", NoError)
           ELSE IF ~IsRetryableError(e)
           THEN retry' = RetryReturns(r, "non-retryable", e)
           ELSE IF retry.attempt = retry.cfg.MaxAttempts - 1
           THEN retry' = RetryReturns(r, "max attempts", e)
           ELSE \E j \in (IF retry.cfg.EnableJitter THEN Jitters(retry.backoff) ELSE {0}) :
                   retry' = [r EXCEPT !.pc = "sleep",
                                      !.waits = Append(@, retry.backoff + j)]
    /\ UNCHANGED <<rpc, sent, scenario, addCall, plan, calls>>
    /\ UNCHANGED pvars
    /\ UNCHANGED cvars

\* rand.Int63n panics: the jitter is asked for with backoff / 4 = 0
RetryJitterPanics(e) ==
    /\ retry.pc = "loop"
    /\ retry.attempt < retry.cfg.MaxAttempts - 1
    /\ e # NoError /\ IsRetryableError(e)
    /\ retry.cfg.EnableJitter /\ Jitters(retry.backoff) = {}
    /\ retry' = [retry EXCEPT !.pc = "panicked", !.calls = @ + 1, !.lastErr = e,
                              !.verdict = TRUE, !.fails = @ + 1]
    /\ UNCHANGED <<rpc, sent, scenario, addCall, plan, calls>>
    /\ UNCHANGED pvars
    /\ UNCHANGED cvars

\* the loop condition fails without a break (MaxAttempts <= 0): the error
\* "max retry attempts exceeded" wraps a nil lastErr
RetryNoAttempts ==
    /\ retry.pc = "loop"
    /\ retry.attempt >= retry.cfg.MaxAttempts
    /\ retry' = RetryReturns(retry, "max attempts", retry.lastErr)
    /\ UNCHANGED <<rpc, sent, scenario, addCall, plan, calls>>
    /\ UNCHANGED pvars
    /\ UNCHANGED cvars

\* time.Duration(float64(backoff) * Multiplier), then the cap at MaxBackoff
NextBackoff(backoff, cfg) ==
    LET b == backoff * cfg.Multiplier
    IN  IF b > cfg.MaxBackoff THEN cfg.MaxBackoff ELSE b

\* select case <-time.After(wait): the wait has elapsed before the context
\* was cancelled; the backoff grows and the next attempt follows
RetryTimer ==
    /\ retry.pc = "sleep"
    /\ ~retry.ctxDone
    /\ retry' = [retry EXCEPT !.pc = "loop", !.attempt = @ + 1,
                              !.backoff = NextBackoff(@, retry.cfg)]
    /\ UNCHANGED <<rpc, sent, scenario, addCall, plan, calls>>
    /\ UNCHANGED pvars
    /\ UNCHANGED cvars

\* Faulty variant of RetryCancelled: the cancellation ends the wait, and the
\* loop goes on.
RetryCancelledGoesOn ==
    /\ retry.pc = "sleep"
    /\ retry.ctxDone
    /\ retry' = [retry EXCEPT !.pc = "loop", !.attempt = @ + 1]
    /\ UNCHANGED <<rpc, sent, scenario, addCall, plan, calls>>
    /\ UNCHANGED pvars
    /\ UNCHANGED cvars

\* select case <-ctx.Done(): return "retry cancelled" wrapping ctx.Err()
RetryCancelled ==
    /\ retry.pc = "sleep"
    /\ retry.ctxDone
    /\ retry' = RetryReturns(retry, "retry cancelled", ContextCanceled)
    /\ UNCHANGED <<rpc, sent, scenario, addCall, plan, calls>>
    /\ UNCHANGED pvars
    /\ UNCHANGED cvars

\* the caller cancels the context it passed to RetryWithBackoff
RetryCtxCancel ==
    /\ retry.pc \in {"loop", "sleep"}
    /\ ~retry.ctxDone
    /\ retry' = [retry EXCEPT !.ctxDone = TRUE]
    /\ UNCHANGED <<rpc, sent, scenario, addCall, plan, calls>>
    /\ UNCHANGED pvars
    /\ UNCHANGED cvars

NextRetry ==
    \/ \E e \in ErrorValues \cup {NoError} : RetryAttempt(e)
    \/ \E e \in ErrorValues : RetryJitterPanics(e)
    \/ RetryNoAttempts
    \/ RetryTimer
    \/ RetryCancelled
    \/ RetryCtxCancel

SpecRetry == InitRetry /\ [][NextRetry]_vars

\* ------------------------------------------------------------------- Next
ChainStep(c) ==
    \/ \E h \in Heads(scenario, c) : HeadOk(c, h)
    \/ \E cause \in {"rpc", "ctx"} : HeadFail(c, cause)
    \/ SelectEpochDone(c)
    \/ SelectDone(c)
    \/ SelectErr(c)
    \/ SelectParentDone(c)
    \/ DrainContinue(c)
    \/ DrainReturn(c)
    \/ PlannerStart(c)
    \/ PlannerFinish(c)
    \/ PlannerCancelled(c)
    \/ PlannerSend(c)
    \/ \E w \in 1..MaxWorkers :
          \/ WorkerRecv(c, w)
          \/ WorkerJobsClosed(c, w)
          \/ WorkerFetchOk(c, w)
          \/ \E cause \in {"rpc", "ctx"} : WorkerFetchFail(c, w, cause)
          \/ WorkerSend(c, w)
          \/ WorkerSendCancelled(c, w)
    \/ CloseDoneCh(c)
    \/ CloseDone(c)
    \/ ArbiterStart(c)
    \/ ArbiterCancelled(c)
    \/ ArbiterRecv(c)
    \/ ArbiterClosed(c)
    \/ ArbiterLoopEnd(c)
    \/ ArbiterExamine(c)
    \/ \E cause \in {"rpc", "ctx"} : ArbiterGetBlockFail(c, cause)
    \/ ArbiterEmit(c)
    \/ ArbiterEmitCancelled(c)
    \/ ArbiterCommit(c)
    \/ ArbiterEndHash(c)

ReorgStep(c) ==
    \/ HandleReorgStep(c)
    \/ \E cause \in {"rpc", "ctx"} : HandleReorgFail(c, cause)

ProcessorStep ==
    \/ \E c \in ChainIds : \E opts \in Options(scenario) : AddChain(c, opts)
    \/ AddChainStore
    \/ RunStart
    \/ RunReturn
    \/ CancelParent
    \/ \E c \in ChainIds : Consume(c)

Next ==
    \/ ProcessorStep
    \/ \E c \in ChainIds : ChainStep(c)
    \/ \E c \in ChainIds : ReorgStep(c)
    \/ \E c \in ChainIds : \E k \in 1..MaxHead : ChainReorg(c, k)

\* the same program with endpoints that never reorganise: no parent-hash
\* mismatch is ever seen, so handleReorg is never entered
NextMulti ==
    \/ ProcessorStep
    \/ \E c \in ChainIds : ChainStep(c)

Spec == Init /\ [][Next]_vars

InitMulti == InitWith("multi")

SpecMulti == InitMulti /\ [][NextMulti]_vars

\* ---------------------------------------------------------- store scenario
\* The chain with one worker, followed along the schedules in which every
\* range is planned, fetched and handed to the arbiter before the arbiter
\* looks again, in which the endpoint fails only inside handleReorg, and in
\* which the parent context stays live.  The steps of the planner, the worker
\* and the closer that lie between two steps of the arbiter are taken
\* together; the arbiter, handleReorg and the runner's select are the actions
\* above.

\* HeadOk, then the planner and the arbiter read chain.cursor
EpochBegins(c, h) ==
    /\ runner[c].pc = "head"
    /\ h \in Heads(scenario, c)
    /\ WorkerCount(chains[c].opts) = 1
    /\ runner' = [runner EXCEPT ![c].pc = "select",
                      ![c].target = Target(h, chains[c].opts.Confimation),
                      ![c].cursor0 = chains[c].cursor]
    /\ planner' = [planner EXCEPT ![c] = [pc |-> "loop",
                                          from |-> PlanFirst(chains[c].cursor),
                                          first |-> PlanFirst(chains[c].cursor)]]
    /\ jobs' = [jobs EXCEPT ![c] = EmptyChan]
    /\ workers' = [workers EXCEPT ![c] =
           [w \in 1..MaxWorkers |->
               IF w = 1 THEN [IdleWorker EXCEPT !.pc = "recv"] ELSE IdleWorker]]
    /\ errCh' = [errCh EXCEPT ![c] = <<>>]
    /\ doneCh' = [doneCh EXCEPT ![c] = EmptyChan]
    /\ done' = [done EXCEPT ![c] = FALSE]
    /\ arbiter' = [arbiter EXCEPT ![c] =
                      [IdleArbiter EXCEPT !.pc = "select",
                                          !.next = chains[c].cursor + 1]]
    /\ sent' = [sent EXCEPT ![c] = <<>>]
    /\ UNCHANGED <<rpc, scenario, addCall, retry, plan, calls>>
    /\ UNCHANGED pvars

\* the planner sends the next range, the worker receives it, fetches its
\* logs and sends the result, the arbiter receives it into its window map
RangeDelivered(c) ==
    /\ planner[c].pc = "loop"
    /\ planner[c].from <= runner[c].target
    /\ workers[c][1].pc = "recv"
    /\ jobs[c].q = <<>> /\ doneCh[c].q = <<>>
    /\ arbiter[c].pc = "select"
    /\ LET rs == chains[c].opts.RangeSize
           from == planner[c].from
           to == PlanTo(from, rs, runner[c].target)
       IN  /\ planner' = [planner EXCEPT ![c].from = PlanNext(from, rs)]
           /\ arbiter' = [arbiter EXCEPT ![c].pc = "loop",
                              ![c].window = MapPut(@, from,
                                  [to |-> to,
                                   logs |-> RangeLogs(from, to, chains[c].topics)])]
    /\ UNCHANGED <<runner, jobs, workers, errCh, doneCh, done,
                   rpc, sent, scenario, addCall, retry, plan, calls>>
    /\ UNCHANGED pvars

\* the planner ends (nothing left to plan while the arbiter waits, or rpcCtx
\* is done and the arbiter has returned) and closes jobs, the worker
\* returns, the closer closes doneCh and done
PipelineEnds(c) ==
    /\ planner[c].pc = "loop"
    /\ \/ planner[c].from > runner[c].target /\ arbiter[c].pc = "select"
       \/ RpcCtxDone(c) /\ arbiter[c].pc = "exit"
    /\ workers[c][1].pc = "recv"
    /\ jobs[c].q = <<>>
    /\ planner' = [planner EXCEPT ![c].pc = "exit"]
    /\ jobs' = [jobs EXCEPT ![c].closed = TRUE]
    /\ workers' = [workers EXCEPT ![c][1].pc = "exit"]
    /\ doneCh' = [doneCh EXCEPT ![c].closed = TRUE]
    /\ done' = [done EXCEPT ![c] = TRUE]
    /\ UNCHANGED <<runner, errCh, arbiter, rpc, sent, scenario, addCall, retry, plan, calls>>
    /\ UNCHANGED pvars

StoreStep(c) ==
    \/ \E h \in StoreHeads : EpochBegins(c, h)
    \/ RangeDelivered(c)
    \/ PipelineEnds(c)
    \/ ArbiterLoopEnd(c)
    \/ ArbiterExamine(c)
    \/ ArbiterCommit(c)
    \/ ArbiterEndHash(c)
    \/ ArbiterClosed(c)
    \/ HandleReorgStep(c)
    \/ HandleReorgFail(c, "rpc")
    \/ SelectEpochDone(c)
    \/ SelectDone(c)
    \/ DrainContinue(c)
    \/ \E k \in StoreForks : ChainReorg(c, k)
    \/ \E k \in StoreForks : ChainShrinks(c, k)

NextStore ==
    \/ \E c \in ChainIds : \E opts \in Options(scenario) : AddChain(c, opts)
    \/ AddChainStore
    \/ RunStart
    \/ \E c \in ChainIds : StoreStep(c)

InitStore == InitWith("store")

SpecStore == InitStore /\ [][NextStore]_vars

\* ------------------------------------------------------ the planner alone
\* The planning loop of runChain as a function of chain.cursor, target and
\* RangeSize: the ranges it sends when nothing cancels it and every send is
\* accepted.  The inputs are heights at both ends of the int range and at the
\* top of the uint64 range, and range sizes from 1 to the largest int.
PlanHeights == {0, 1, 2, 3, 5, MaxInt - 1, MaxInt, Uint64 - 2, Uint64 - 1}
PlanSizes == {1, 2, 3, MaxInt}

PlanEntered(cursor, target, rs) ==
    [pc |-> "loop", cursor |-> cursor, target |-> target, rs |-> rs,
     from |-> PlanFirst(cursor), out |-> <<>>]

InitPlan ==
    /\ InitProcessor("plan")
    /\ retry = NoRetry
    /\ calls = NoCall
    /\ plan \in {PlanEntered(cu, t, rs) :
                    cu \in PlanHeights, t \in PlanHeights, rs \in PlanSizes}

\* from <= target: jobs <- blockRange{from, to}; from += rs
PlanStep ==
    /\ plan.pc = "loop"
    /\ plan.from <= plan.target
    /\ Len(plan.out) < MaxPlanned
    /\ plan' = [plan EXCEPT
                    !.out = Append(@, [from |-> plan.from,
                                       to |-> PlanTo(plan.from, plan.rs,
                                                     plan.target)]),
                    !.from = PlanNext(plan.from, plan.rs)]
    /\ UNCHANGED <<rpc, sent, scenario, addCall, retry, calls>>
    /\ UNCHANGED pvars
    /\ UNCHANGED cvars

\* from > target: the loop ends
PlanEnd ==
    /\ plan.pc = "loop"
    /\ plan.from > plan.target
    /\ plan' = [plan EXCEPT !.pc = "done"]
    /\ UNCHANGED <<rpc, sent, scenario, addCall, retry, calls>>
    /\ UNCHANGED pvars
    /\ UNCHANGED cvars

NextPlan == PlanStep \/ PlanEnd

SpecPlan == InitPlan /\ [][NextPlan]_vars

\* ------------------------------------------------- the window-hash store
\* storeWindowHash and dropWindowHash called in any order on the store of a
\* registered chain (capacity 8, the least AddChain gives).  The store is
\* first filled by a run of storeWindowHash calls (StoreFilled), in ascending
\* order as commits do or in the order left behind by a search that returned
\* without trimming; then up to MaxCalls single calls follow, with any key,
\* hash and height.
MaxCalls == 3
StoreKeys == 1..10
StoreHashes == {1, 2}
StoreFills == {<<1, 2, 3, 4, 5, 6, 7>>, <<1, 2, 3, 4, 5, 6, 7, 8>>,
               <<1, 2, 3, 6, 4, 5, 7, 8>>, <<3, 1, 2>>}

RECURSIVE Filled(_, _)
Filled(cs, keys) ==
    IF keys = <<>> THEN cs
    ELSE Filled(storeWindowHash(Head(keys), 1, cs), Tail(keys))

StoreFilled(c, keys) ==
    /\ c \in DOMAIN chains
    /\ calls.n = 0 /\ calls.op = "none"
    /\ chains' = [chains EXCEPT ![c] = Filled(@, keys)]
    /\ calls' = [calls EXCEPT !.op = "fill"]
    /\ UNCHANGED <<logsCh, isRunning, run, ctxDone, rpc, sent, scenario,
                   addCall, retry, plan>>
    /\ UNCHANGED cvars

StoreCall(c, to, blockHash) ==
    /\ c \in DOMAIN chains
    /\ calls.n < MaxCalls
    /\ chains' = [chains EXCEPT ![c] = storeWindowHash(to, blockHash, @)]
    /\ calls' = [n |-> calls.n + 1, op |-> "store", arg |-> to,
                 hash |-> blockHash]
    /\ UNCHANGED <<logsCh, isRunning, run, ctxDone, rpc, sent, scenario,
                   addCall, retry, plan>>
    /\ UNCHANGED cvars

DropCall(c, after) ==
    /\ c \in DOMAIN chains
    /\ calls.n < MaxCalls
    /\ chains' = [chains EXCEPT ![c] = dropWindowHash(after, @)]
    /\ calls' = [n |-> calls.n + 1, op |-> "drop", arg |-> after, hash |-> 0]
    /\ UNCHANGED <<logsCh, isRunning, run, ctxDone, rpc, sent, scenario,
                   addCall, retry, plan>>
    /\ UNCHANGED cvars

InitCalls == InitWith("calls")

NextCalls ==
    \/ \E opts \in Options("calls") : AddChain(1, opts)
    \/ AddChainStore
    \/ \E keys \in StoreFills : StoreFilled(1, keys)
    \/ \E to \in StoreKeys, h \in StoreHashes : StoreCall(1, to, h)
    \/ \E after \in {0} \cup StoreKeys : DropCall(1, after)

SpecCalls == InitCalls /\ [][NextCalls]_vars

\* ------------------------------------------------------- AddChain alone
\* AddChain called on a processor that is not running, with the options of
\* scenario "cap".
InitCap == InitWith("cap")

NextCap ==
    \/ \E opts \in Options("cap") : AddChain(1, opts)
    \/ AddChainStore

SpecCap == InitCap /\ [][NextCap]_vars

\* ============================================================== properties
IsPrefix(p, q) == Len(p) <= Len(q) /\ SubSeq(q, 1, Len(p)) = p

InEpoch(c) == c \in DOMAIN chains /\ runner[c].pc \in {"select", "drain"}

\* the logs of blocks lo..hi that chain c's filter retains, in RPC order
Canon(c, lo, hi) == FetchedLogs(lo, hi, chains[c].topics)

\* C1: within an epoch the logs reach the output stream window by window in
\* ascending block order, whatever order the fetch results arrived in: what
\* has been sent is always an initial part of the logs of the blocks that
\* follow the cursor the epoch started from, so a window's logs come after all
\* logs of the windows before it and before any log of a window after it.
C1_EmitInWindowOrder ==
    \A c \in ChainIds :
        InEpoch(c) => IsPrefix(sent[c], Canon(c, runner[c].cursor0 + 1, MaxHead))

\* C1 witness: a result for a later window arrived first and was held back
\* while the logs of the window at next were sent.
C1_Witness ==
    \E c \in ChainIds :
        /\ InEpoch(c)
        /\ arbiter[c].pc = "emit"
        /\ sent[c] # <<>>
        /\ \E f \in DOMAIN arbiter[c].window :
              f > arbiter[c].next /\ arbiter[c].window[f].logs # <<>>

\* C2: every log of a committed window has been sent, in the order the RPC
\* returned them, none dropped and none twice, before chain.cursor reaches the
\* end of the window: the logs of the blocks from the epoch's first block up
\* to the cursor are an initial part of what was sent, and all of it right
\* after a commit.
C2_CommittedLogsDelivered ==
    \A c \in ChainIds :
        InEpoch(c) =>
            /\ IsPrefix(Canon(c, runner[c].cursor0 + 1, chains[c].cursor), sent[c])
            /\ arbiter[c].pc = "endhash" =>
                  sent[c] = Canon(c, runner[c].cursor0 + 1, chains[c].cursor)

\* C2 witness: a window with two logs has just been committed.
C2_Witness ==
    \E c \in ChainIds :
        /\ InEpoch(c)
        /\ arbiter[c].pc = "endhash"
        /\ Len(arbiter[c].committed) >= 2

\* C3: right after a commit chain.cursor is the end of the window, also when
\* the window had no logs, and whenever the arbiter goes on to another window
\* after a commit, the hash of the block at the cursor is in the store (as the
\* entry stored last).
C3_CommitSetsCursorAndHash ==
    \A c \in ChainIds :
        InEpoch(c) =>
            /\ arbiter[c].pc = "endhash" => chains[c].cursor = arbiter[c].end
            /\ (arbiter[c].pc \in {"select", "loop", "emit"} /\ arbiter[c].ncommit > 0) =>
                  /\ chains[c].cursor = arbiter[c].next - 1
                  /\ chains[c].cursor \in DOMAIN chains[c].storedWindowHash
                  /\ chains[c].windowOrder # <<>>
                  /\ Last(chains[c].windowOrder) = chains[c].cursor

\* C3 witness: a window without logs was committed, nothing was sent for it,
\* its end hash was stored and the arbiter is back at the head of its loop.
C3_Witness ==
    \E c \in ChainIds :
        /\ InEpoch(c)
        /\ arbiter[c].pc = "loop"
        /\ arbiter[c].ncommit > 0
        /\ sent[c] = <<>>
        /\ chains[c].cursor > runner[c].cursor0

\* C4: chain.cursor decreases only in the step in which the arbiter assigns
\* the result of handleReorg; every other step leaves it equal or larger.
C4_CursorMonotoneExceptReorg ==
    [][\A c \in DOMAIN chains :
          chains'[c].cursor < chains[c].cursor =>
              arbiter[c].pc = "reorg" /\ arbiter'[c].pc = "exit"]_vars

\* C4 witness: the cursor was rewound by a reorg and has advanced again.
C4_Witness ==
    \E c \in ChainIds :
        /\ InEpoch(c)
        /\ runner[c].rewound >= 0
        /\ chains[c].cursor > runner[c].rewound

\* C5: once the arbiter has seen a parent-hash mismatch at block `next`, the
\* window starting there is not committed: the epoch context is cancelled,
\* the arbiter is in handleReorg or has returned, nothing of that window or of
\* a later one was sent (what was sent are exactly the logs of the windows
\* committed before), and when the arbiter has returned the cursor is the
\* value handleReorg returned, which lies below `next`.
C5_MismatchAbortsWindow ==
    \A c \in ChainIds :
        (InEpoch(c) /\ arbiter[c].reorgAt # 0) =>
            /\ runner[c].cancelled
            /\ arbiter[c].pc \in {"reorg", "exit"}
            /\ sent[c] = Canon(c, runner[c].cursor0 + 1, arbiter[c].reorgAt - 1)
            /\ chains[c].cursor < arbiter[c].reorgAt
            /\ arbiter[c].pc = "exit" => chains[c].cursor = arbiter[c].ancestor

\* C5 witness: a mismatch was seen after a window with logs had been
\* committed in the same epoch, and the arbiter has returned.
C5_Witness ==
    \E c \in ChainIds :
        /\ InEpoch(c)
        /\ arbiter[c].reorgAt # 0
        /\ arbiter[c].pc = "exit"
        /\ sent[c] # <<>>

\* C6: after handleReorg returned r, the next epoch begins with cursor = r,
\* its planner and its arbiter both start at r + 1, and it sends no log of a
\* block at or below r.
NextEpochAfterReorg(c) ==
    /\ c \in DOMAIN chains
    /\ runner[c].rewound >= 0
    /\ arbiter[c].reorgAt = 0

C6_NextEpochStartsAfterAncestor ==
    \A c \in ChainIds :
        NextEpochAfterReorg(c) =>
            LET r == runner[c].rewound IN
            /\ runner[c].pc = "head" => chains[c].cursor = r
            /\ runner[c].pc \in {"select", "drain"} => runner[c].cursor0 = r
            /\ planner[c].pc \in {"loop", "exit"} => planner[c].first = r + 1
            /\ arbiter[c].pc \in {"select", "loop", "emit", "endhash"} =>
                  /\ arbiter[c].next >= r + 1
                  /\ arbiter[c].ncommit = 0 /\ arbiter[c].pc # "endhash"
                        => arbiter[c].next = r + 1
            /\ \A i \in 1..Len(sent[c]) : sent[c][i].block > r

\* C6 witness: the epoch after a reorg that was resolved to an ancestor
\* r >= 1 has committed a window.
C6_Witness ==
    \E c \in ChainIds :
        /\ NextEpochAfterReorg(c)
        /\ runner[c].rewound >= 1
        /\ arbiter[c].ncommit > 0

\* C7: after a fetch worker has published an error on errCh, runChain starts
\* no further epoch, and when it returns (the parent context not being
\* cancelled) it returns the published error.
C7_WorkerErrorEndsChain ==
    \A c \in ChainIds :
        runner[c].workerErr =>
            /\ runner[c].pc # "head"
            /\ (runner[c].pc = "returned" /\ ~runner[c].atCancel) =>
                  runner[c].err.by = "worker"

\* C8: when runChain returns after the parent context was cancelled, it does
\* not return an error that stems from the cancellation (errors the endpoint
\* produced on its own are left aside).
C8_ParentCancelReturnsNil ==
    \A c \in ChainIds :
        (runner[c].pc = "returned" /\ runner[c].atCancel) =>
            runner[c].err.cause # "ctx"

\* C9: once the parent context is cancelled, every chain runner eventually
\* returns (which it does only after its workers and arbiter are gone) and
\* Run returns; no consumer is needed for that.
AllStopped ==
    /\ run.pc = "returned"
    /\ \A c \in run.launched : runner[c].pc = "returned"

C9_CancelTerminates == ctxDone ~> AllStopped

\* C9 witness: Run has returned after a cancellation; the chain's last
\* epochs resolved a reorg, and the output buffer is still full because
\* nobody read it.
C9_Witness ==
    /\ ctxDone
    /\ AllStopped
    /\ \E c \in run.launched :
          /\ Len(logsCh[c]) = chains[c].opts.LogsBufferSize
          /\ runner[c].rewound >= 0

\* C10 (as claimed): Run is able to return as soon as one chain runner has
\* returned an error, or when all have returned.
ClaimedReturn ==
    \/ \E c \in run.launched : runner[c].pc = "returned" /\ runner[c].err # NoErr
    \/ \A c \in run.launched : runner[c].pc = "returned"

C10_ReturnsOnFirstError ==
    (run.pc = "waiting" /\ ClaimedReturn) => WaitReady

\* C10 (amended): Run launches every registered chain runner and returns only
\* when all of them have returned; its result is an error exactly when some
\* runner returned one.
C10_ReturnsWhenAllReturned ==
    /\ run.pc # "idle" => \A c \in run.launched : runner[c].pc # "idle"
    /\ run.pc = "returned" =>
          /\ \A c \in run.launched : runner[c].pc = "returned"
          /\ run.err # NoErr <=> \E c \in run.launched : runner[c].err # NoErr
          /\ run.err # NoErr => \E c \in run.launched : runner[c].err = run.err

\* C10 witness: of two chains launched one returned an error, the other
\* returned nil later, and Run has returned the error.
C10_Witness ==
    /\ run.pc = "returned"
    /\ run.launched = ChainIds
    /\ run.err # NoErr
    /\ \E c \in run.launched : runner[c].err = NoErr

\* ---------------------------------------------------------------- fairness
\* Every goroutine that can take a step eventually takes one; a select whose
\* case <-ctx.Done() is ready again and again eventually picks it (Go chooses
\* among the ready cases at random).  The consumer and the endpoint are under
\* no obligation.
Fairness ==
    /\ WF_vars(RunReturn)
    /\ \A c \in ChainIds :
          /\ WF_vars(ChainStep(c) \/ ReorgStep(c))
          /\ SF_vars(SelectParentDone(c))

InitLive == InitWith("live")

FairSpec == InitLive /\ [][Next]_vars /\ Fairness

InitFixed == InitWith("fixed")

\* The endpoint with a fixed head and a reader of the output stream that keeps
\* reading: every goroutine of the chain that can take a step eventually
\* takes one, and so does the reader.
FairnessFixed ==
    \A c \in ChainIds : WF_vars(ChainStep(c)) /\ WF_vars(Consume(c))

SpecFixed == InitFixed /\ [][NextMulti]_vars /\ FairnessFixed

\* The chain of scenario "pressure": its endpoint never fails and the parent
\* context stays live, so that an epoch ends only when all its ranges are
\* committed; the reader of the output stream reads when it likes.
PressureStep(c) ==
    \/ \E h \in Heads(scenario, c) : HeadOk(c, h)
    \/ SelectDone(c)
    \/ DrainContinue(c)
    \/ PlannerStart(c)
    \/ PlannerFinish(c)
    \/ PlannerSend(c)
    \/ \E w \in 1..MaxWorkers :
          \/ WorkerRecv(c, w)
          \/ WorkerJobsClosed(c, w)
          \/ WorkerFetchOk(c, w)
          \/ WorkerSend(c, w)
    \/ CloseDoneCh(c)
    \/ CloseDone(c)
    \/ ArbiterStart(c)
    \/ ArbiterRecv(c)
    \/ ArbiterClosed(c)
    \/ ArbiterLoopEnd(c)
    \/ ArbiterExamine(c)
    \/ ArbiterEmit(c)
    \/ ArbiterCommit(c)
    \/ ArbiterEndHash(c)
    \/ Consume(c)

NextPressure ==
    \/ \E c \in ChainIds : \E opts \in Options(scenario) : AddChain(c, opts)
    \/ AddChainStore
    \/ RunStart
    \/ \E c \in ChainIds : PressureStep(c)

InitPressure == InitWith("pressure")

SpecPressure == InitPressure /\ [][NextPressure]_vars

\* C11: the step in which a chain runner returns an error cancels no context
\* (neither the parent's nor a sibling's epoch context) and leaves every
\* sibling's goroutines, channels and cursor as they are; and the error is
\* kept: once Run has returned after a runner failed, Run's result is an
\* error.
FailsNow(c) ==
    /\ runner[c].pc # "returned"
    /\ runner'[c].pc = "returned"
    /\ runner'[c].err # NoErr

SiblingUntouched(d) ==
    /\ runner'[d] = runner[d]
    /\ planner'[d] = planner[d]
    /\ workers'[d] = workers[d]
    /\ arbiter'[d] = arbiter[d]
    /\ jobs'[d] = jobs[d] /\ doneCh'[d] = doneCh[d] /\ done'[d] = done[d]
    /\ errCh'[d] = errCh[d] /\ logsCh'[d] = logsCh[d]

C11_FailureLeavesSiblings ==
    /\ [][\A c \in ChainIds :
             FailsNow(c) =>
                 /\ ctxDone' = ctxDone
                 /\ chains' = chains
                 /\ \A d \in ChainIds \ {c} : SiblingUntouched(d)]_vars
    /\ [](run.pc = "returned" =>
             ((\E c \in run.launched : runner[c].err # NoErr) => run.err # NoErr))

\* C11 witness: one chain runner has returned an error, the parent context is
\* live, and its sibling has just committed a window whose log it sent and
\* whose epoch context is not cancelled.
C11_Witness ==
    \E c \in ChainIds : \E d \in ChainIds \ {c} :
        /\ runner[c].pc = "returned" /\ runner[c].err # NoErr
        /\ ~ctxDone
        /\ runner[d].pc = "select" /\ ~runner[d].cancelled
        /\ arbiter[d].pc = "endhash"
        /\ sent[d] # <<>>

\* C12: a call of AddChain that finds the processor running returns the
\* error "cannot add chain while processor is running" and changes neither
\* the registered chains nor their output channels.
C12_AddChainWhileRunningRejected ==
    [][(isRunning /\ addCall.pc = "idle" /\ addCall' # addCall) =>
           /\ addCall'.pc = "idle"
           /\ addCall'.err = "running"
           /\ chains' = chains
           /\ logsCh' = logsCh]_vars

\* C12 witness: while a chain runner is in an epoch, a call of AddChain for
\* another chain has returned the error, and that chain is not registered.
C12_Witness ==
    /\ isRunning
    /\ addCall.pc = "idle" /\ addCall.err = "running"
    /\ \E c \in run.launched : runner[c].pc = "select"
    /\ \E d \in ChainIds : d \notin DOMAIN chains

\* C13: isRunning is true while a chain runner launched by Run is executing
\* and false once Run has returned, and no chainState is created while a
\* chain runner is active: as long as one is, the registered chains are the
\* ones Run launched.
RunnerActive == \E c \in run.launched : runner[c].pc \notin {"idle", "returned"}

C13_NoChainStateWhileRunning ==
    /\ RunnerActive => isRunning
    /\ run.pc = "returned" => ~isRunning
    /\ RunnerActive => DOMAIN chains = run.launched

\* --------------------------------------------------------- retry executor
Returned == retry.pc = "returned"

\* C14: fn is invoked at most MaxAttempts times, and the loop stops at the
\* first success: when fn has failed k times with errors classified
\* retryable and then succeeds, it has been invoked k + 1 times, nil is
\* returned, and it is not invoked again.
C14_StopsAtFirstSuccess ==
    /\ retry.calls <= retry.cfg.MaxAttempts
    /\ retry.lastErr = NoError /\ retry.calls > 0 =>
          /\ Returned
          /\ retry.result = [kind |-> "nil", wraps |-> NoError]
          /\ retry.calls = retry.fails + 1
    /\ (Returned /\ retry.result.kind = "nil") => retry.lastErr = NoError /\ retry.calls > 0

\* C14 witness: fn failed twice with retryable errors and then succeeded.
C14_Witness ==
    /\ Returned
    /\ retry.result.kind = "nil"
    /\ retry.fails = 2 /\ retry.calls = 3

\* C15: when fn returns an error classified non-retryable, the call returns
\* at once an error "non-retryable error" that wraps it: no wait follows the
\* attempt and fn is not invoked again.
C15_NonRetryableReturnsAtOnce ==
    /\ (retry.calls > 0 /\ retry.lastErr # NoError /\ ~retry.verdict) =>
          /\ Returned
          /\ retry.result = [kind |-> "non-retryable", wraps |-> retry.lastErr]
          /\ Len(retry.waits) = retry.calls - 1
    /\ (Returned /\ retry.result.kind = "non-retryable") =>
          retry.calls > 0 /\ retry.lastErr # NoError /\ ~retry.verdict

\* C15 witness: the second attempt returned HTTP 400 after one wait.
C15_Witness ==
    /\ Returned
    /\ retry.result = [kind |-> "non-retryable", wraps |-> HTTPError(400)]
    /\ retry.calls = 2 /\ Len(retry.waits) = 1

\* C16: when every attempt fails with an error classified retryable (and the
\* context is not cancelled in a wait), fn is invoked exactly MaxAttempts
\* times with MaxAttempts - 1 waits, none after the final attempt, and the
\* error "max retry attempts exceeded" wraps the last error.
C16_ExhaustionAfterMaxAttempts ==
    /\ (Returned /\ retry.result.kind = "max attempts" /\ retry.cfg.MaxAttempts >= 1) =>
          /\ retry.calls = retry.cfg.MaxAttempts
          /\ retry.fails = retry.cfg.MaxAttempts
          /\ Len(retry.waits) = retry.cfg.MaxAttempts - 1
          /\ retry.result.wraps = retry.lastErr /\ retry.lastErr # NoError
    /\ (retry.calls = retry.cfg.MaxAttempts /\ retry.fails = retry.calls /\ retry.calls >= 1) =>
          /\ Returned
          /\ retry.result.kind = "max attempts"
    /\ retry.pc = "sleep" => Len(retry.waits) = retry.calls /\ retry.calls < retry.cfg.MaxAttempts
    /\ retry.pc \in {"loop", "returned"} /\ retry.result.kind # "retry cancelled" =>
          Len(retry.waits) <= retry.calls

\* C16 witness: three attempts, three retryable errors, two waits.
C16_Witness ==
    /\ Returned
    /\ retry.result.kind = "max attempts"
    /\ retry.cfg.MaxAttempts = 3 /\ retry.calls = 3 /\ Len(retry.waits) = 2

\* C17: with jitter disabled, the wait before retry i (i = 0, 1, ...) is
\* min(InitialBackoff * Multiplier^i, MaxBackoff); so no wait exceeds
\* MaxBackoff and the total is the sum of these terms.
RECURSIVE Pow(_, _)
Pow(b, n) == IF n = 0 THEN 1 ELSE b * Pow(b, n - 1)

CappedExponential(cfg, i) ==
    Min(cfg.InitialBackoff * Pow(cfg.Multiplier, i), cfg.MaxBackoff)

C17_WaitsAreCappedExponential ==
    ~retry.cfg.EnableJitter =>
        \A i \in 1..Len(retry.waits) :
            retry.waits[i] = CappedExponential(retry.cfg, i - 1)

C19_HttpRetryableIs429Or5xx ==
    (retry.calls > 0 /\ retry.lastErr.kind = "http") =>
        (retry.verdict <=>
            (retry.lastErr.code = 429 \/ retry.lastErr.code \in 500..599))

\* C20: an RPCError is classified retryable exactly when its code lies in
\* -32099..-32000, and an error that is neither an HTTPError nor an RPCError
\* is never classified retryable.
C20_RpcRetryableRange ==
    /\ (retry.calls > 0 /\ retry.lastErr.kind = "rpc") =>
          (retry.verdict <=> retry.lastErr.code \in (-32099)..(-32000))
    /\ (retry.calls > 0 /\ retry.lastErr.kind \notin {"http", "rpc"}) => ~retry.verdict

\* C20 witness: fn returned the RPC error -32099, the lower end of the range,
\* and the call is waiting to retry.
C20_Witness ==
    /\ retry.pc = "sleep"
    /\ retry.lastErr = RPCError(-32099)
    /\ retry.verdict

\* ------------------------------------------------ StartBlock and EndBlock
\* C21: StartBlock is the first block indexed: in an epoch that begins with
\* the cursor still at StartBlock on an endpoint that never reorganised (so
\* nothing was committed before), the first range the planner plans starts at
\* block StartBlock.
C21_StartBlockInclusive ==
    \A c \in DOMAIN chains :
        (/\ InEpoch(c)
         /\ rpc[c].reorgs = 0
         /\ runner[c].cursor0 = chains[c].opts.StartBlock
         /\ planner[c].pc \in {"loop", "exit"}) =>
            planner[c].first = chains[c].opts.StartBlock

\* C22: with EndBlock > 0 the cursor never exceeds EndBlock and no range that
\* reaches above EndBlock is planned.
C22_EndBlockBoundsIndexing ==
    \A c \in DOMAIN chains :
        chains[c].opts.EndBlock > 0 =>
            /\ chains[c].cursor <= chains[c].opts.EndBlock
            /\ \A i \in 1..Len(jobs[c].q) :
                  jobs[c].q[i].to <= chains[c].opts.EndBlock

\* ------------------------------------------------- target and confirmation
\* C23: in every epoch target is head - Confirmation, or 0 when head <=
\* Confirmation; no range handed to a worker, fetched, delivered or held by
\* the arbiter reaches above target, and the cursor stays at or below the
\* larger of target and the cursor the epoch started with.  (Stated for an
\* endpoint with a fixed head, rpc[c].head.)
Max(a, b) == IF a > b THEN a ELSE b

C23_TargetBoundsEpoch ==
    \A c \in DOMAIN chains :
        InEpoch(c) =>
            LET conf == chains[c].opts.Confimation
                head == rpc[c].head
                target == runner[c].target
            IN  /\ target = (IF head <= conf THEN 0 ELSE head - conf)
                /\ \A i \in 1..Len(jobs[c].q) : jobs[c].q[i].to <= target
                /\ \A w \in 1..MaxWorkers :
                      workers[c][w].pc \in {"fetch", "send"} =>
                          workers[c][w].job.to <= target
                /\ \A i \in 1..Len(doneCh[c].q) : doneCh[c].q[i].to <= target
                /\ \A f \in DOMAIN arbiter[c].window :
                      arbiter[c].window[f].to <= target
                /\ chains[c].cursor <= Max(runner[c].cursor0, target)

\* C23 witness: head 2 with one confirmation: the epoch is over (all workers
\* gone, the arbiter has returned) and the cursor stands at block 1.
C23_Witness ==
    \E c \in DOMAIN chains :
        /\ InEpoch(c)
        /\ chains[c].opts.Confimation = 1 /\ rpc[c].head = 2
        /\ done[c] /\ arbiter[c].pc = "exit"
        /\ runner[c].cursor0 = 0
        /\ chains[c].cursor = 1

\* C24: on an endpoint that never fails, with a fixed head H and no
\* reorganisation, a reader that keeps reading and a parent context that is
\* not cancelled, a running chain's cursor eventually reaches H -
\* Confirmation (0 when H <= Confirmation), for one worker and for two and in
\* whatever order the workers' results arrive.
ReachedTarget(c) ==
    /\ c \in DOMAIN chains
    /\ chains[c].cursor = Target(rpc[c].head, chains[c].opts.Confimation)

C24_CursorReachesTarget ==
    \A c \in ChainIds :
        (runner[c].pc = "head") ~>
            (ctxDone \/ rpc[c].fails > 0 \/ ReachedTarget(c))

\* C24 witness: two workers and head 2 without confirmations: both ranges
\* were committed in this epoch and the cursor has reached block 2, with the
\* endpoint never failing and the context live.
C24_Witness ==
    \E c \in DOMAIN chains :
        /\ InEpoch(c)
        /\ ~ctxDone /\ rpc[c].fails = 0
        /\ WorkerCount(chains[c].opts) = 2
        /\ rpc[c].head = 2
        /\ ReachedTarget(c)
        /\ runner[c].cursor0 = 0
        /\ arbiter[c].ncommit > 0

\* ------------------------------------------------------------------ tiling
\* C25: the cursor changes only when the arbiter commits a window or assigns
\* the result of handleReorg, and a commit of the window [a, b] happens with
\* cursor = a - 1 and leaves cursor = b >= a: each commit covers exactly the
\* blocks that follow the cursor, so as long as no reorg rewinds the cursor
\* the committed windows follow one another without gap or overlap, within
\* an epoch and from one epoch to the next.  And when an epoch on a chain
\* that never reorganised is followed by another (the parent context being
\* live), every log it sent belongs to a window it committed, so the next
\* epoch, which starts after the cursor, sends none of them again.
CommitsWindow(c) ==
    /\ arbiter[c].pc = "emit"
    /\ arbiter[c].next \in DOMAIN arbiter[c].window
    /\ arbiter[c].next = chains[c].cursor + 1
    /\ chains'[c].cursor = arbiter[c].window[arbiter[c].next].to
    /\ chains'[c].cursor >= arbiter[c].next
    /\ arbiter'[c].next = chains'[c].cursor + 1

C25_CommitsTile ==
    [][\A c \in DOMAIN chains :
          /\ chains'[c].cursor # chains[c].cursor =>
                \/ CommitsWindow(c)
                \/ arbiter[c].pc = "reorg" /\ arbiter'[c].pc = "exit"
          /\ (/\ runner[c].pc = "drain" /\ runner'[c].pc = "head"
              /\ rpc[c].reorgs = 0 /\ ~ctxDone) =>
                sent[c] = Canon(c, runner[c].cursor0 + 1, chains[c].cursor)]_vars

\* C25 witness: on a chain that never reorganised, an epoch in which a fetch
\* failed was followed by another, and the arbiter of an epoch that started
\* at block 1 or above has just committed a window.
C25_Witness ==
    \E c \in DOMAIN chains :
        /\ InEpoch(c)
        /\ rpc[c].reorgs = 0 /\ rpc[c].fails > 0
        /\ runner[c].cursor0 >= 1
        /\ arbiter[c].pc = "endhash"

\* ------------------------------------------------------------ epoch tasks
\* C26: when runChain leaves an epoch, to begin the next one or to return,
\* every task of that epoch has returned: the planner, each fetch worker and
\* the arbiter.
EpochTasksGone(c) ==
    /\ planner[c].pc = "exit"
    /\ \A w \in 1..MaxWorkers : workers[c][w].pc \in {"idle", "exit"}
    /\ arbiter[c].pc = "exit"

C26_NoTaskOutlivesEpoch ==
    [][\A c \in DOMAIN chains :
          (runner[c].pc = "drain" /\ runner'[c].pc \in {"head", "returned"}) =>
              EpochTasksGone(c)]_vars

\* ------------------------------------------------------ window-hash store
\* C28: while no arbiter is running (before the first epoch, between two
\* epochs, after the arbiter has returned) every key of the window-hash
\* store is at or below the cursor.
NoArbiterRunning(c) == arbiter[c].pc \in {"idle", "exit"}

C28_StoreKeysAtMostCursor ==
    \A c \in DOMAIN chains :
        NoArbiterRunning(c) =>
            \A k \in DOMAIN chains[c].storedWindowHash : k <= chains[c].cursor

\* handleReorg returns by its match branch (processor.go 408-412), by one of
\* its two hard fallbacks (414-417, 426-432)
ReturnsAncestor(c) ==
    arbiter[c].pc = "reorg" /\ arbiter'[c].pc # "reorg"
        /\ arbiter'[c].how = "ancestor"

ReturnsFallback(c) ==
    arbiter[c].pc = "reorg" /\ arbiter'[c].pc # "reorg"
        /\ arbiter'[c].how = "fallback"

\* C27: handleReorg returns a as the found ancestor only if a is a key of the
\* window-hash store and the header of block a+1 carries the stored hash of a
\* as its parent hash; a candidate with no stored hash is never accepted.
C27_AncestorHasStoredHash ==
    [][\A c \in ChainIds :
          ReturnsAncestor(c) =>
              LET a == arbiter[c].ancestor
                  m == chains[c].storedWindowHash
              IN  /\ a \in DOMAIN m
                  /\ ParentHash(c, a + 1) = m[a]
                  /\ chains'[c].cursor = a]_vars

\* C29: when handleReorg returns the ancestor a by a match, the store
\* afterwards has no key above a and its entries at or below a are the ones
\* it had, whatever the store held before.
C29_MatchTrimsStore ==
    [][\A c \in ChainIds :
          ReturnsAncestor(c) =>
              LET a == arbiter[c].ancestor
                  m == chains[c].storedWindowHash
                  n == chains'[c].storedWindowHash
              IN  /\ \A k \in DOMAIN n : k <= a
                  /\ \A k \in DOMAIN m : k <= a => k \in DOMAIN n /\ n[k] = m[k]]_vars

\* C30: when the search ends without a match, handleReorg returns
\* max(cursor - hardFallbackBlocks, 0) and the store afterwards has no key
\* above the returned height.
C30_FallbackTrimsStore ==
    [][\A c \in ChainIds :
          ReturnsFallback(c) =>
              LET r == Max(chains[c].cursor - HardFallbackBlocks, 0)
              IN  /\ chains'[c].cursor = r
                  /\ \A k \in DOMAIN chains'[c].storedWindowHash : k <= r]_vars

\* handleReorg returns otherwise than by an error of GetBlock or a cancelled
\* context
SearchEnds(c) == ReturnsAncestor(c) \/ ReturnsFallback(c)

\* the committed window ends at or below the cursor whose stored hash is the
\* hash the chain has at that height now
StillValid(c) ==
    {k \in DOMAIN chains[c].storedWindowHash :
        k <= chains[c].cursor /\ chains[c].storedWindowHash[k] = BlockHash(c, k)}

SetMax(S) == CHOOSE x \in S : \A y \in S : y <= x

\* C31: when the highest committed window end whose stored hash still matches
\* the chain lies within ReorgLookbackBlocks of the cursor, the ancestor
\* search returns that height as ancestor, not the hard fallback.  (Stated
\* for the first reorganisation of a chain whose endpoint has not failed and
\* has every block the search asks for, so that the chain is the same
\* throughout the search and the store holds what the commits put there.)
C31_SearchCoversLookback ==
    [][\A c \in ChainIds :
          (/\ SearchEnds(c)
           /\ rpc[c].reorgs = 1 /\ rpc[c].fails = 0
           /\ rpc[c].tip > chains[c].cursor
           /\ StillValid(c) # {}
           /\ chains[c].cursor - SetMax(StillValid(c))
                  <= chains[c].opts.ReorgLookbackBlocks)
          => /\ arbiter'[c].how = "ancestor"
             /\ chains'[c].cursor = SetMax(StillValid(c))]_vars

\* C32: the cursor never drops below the configured StartBlock: neither a
\* found ancestor nor the hard fallback rewinds a chain below it.  (Stated
\* for an endpoint that has answered every call, so that handleReorg has
\* returned by a match or by its hard fallback only.)
C32_CursorAtLeastStartBlock ==
    \A c \in DOMAIN chains :
        rpc[c].fails = 0 => chains[c].cursor >= chains[c].opts.StartBlock

\* C33: after a reorganisation is detected and the endpoint answers
\* consistently and without error, the rewind happens once: the height
\* handleReorg rewinds to is one the next epoch commits from, so the entry the
\* next parent check consults (the stored hash of the new cursor, if any) is
\* the hash the chain has there, and the same reorganisation is not detected
\* again.
C33_RewindHappensOnce ==
    [][\A c \in ChainIds :
          (/\ SearchEnds(c)
           /\ rpc[c].reorgs = 1 /\ rpc[c].fails = 0
           /\ rpc[c].tip > chains[c].cursor)
          => LET r == chains'[c].cursor
                 m == chains'[c].storedWindowHash
             IN  r \in DOMAIN m => m[r] = BlockHash(c, r)]_vars

\* the arbiter is about to examine the window starting at next, and the
\* store has no entry for next-1
ExaminesUnanchored(c) ==
    /\ arbiter[c].pc = "loop"
    /\ arbiter[c].next \in DOMAIN arbiter[c].window
    /\ arbiter[c].next # 0
    /\ (arbiter[c].next - 1) \notin DOMAIN chains[c].storedWindowHash

\* C34: if the store has no entry for next-1, the arbiter goes on to commit
\* the window starting at next (unless GetBlock fails) and signals no reorg:
\* it neither enters handleReorg nor cancels the epoch.
C34_NoEntryNoParentCheck ==
    [][\A c \in ChainIds :
          (ExaminesUnanchored(c) /\ arbiter'[c] # arbiter[c])
          => /\ arbiter'[c].pc # "reorg"
             /\ runner'[c].cancelled = runner[c].cancelled
             /\ rpc'[c].fails = rpc[c].fails => arbiter'[c].pc = "emit"]_vars

\* the first window after a hard fallback is being committed: with StartBlock
\* 0 the cursor is 200 only after a fallback from 1200, which emptied the store
C34_Witness ==
    \E c \in DOMAIN chains :
        /\ chains[c].opts.StartBlock = 0
        /\ arbiter[c].pc = "emit"
        /\ arbiter[c].next = 201
        /\ chains[c].cursor = 200
        /\ 200 \notin DOMAIN chains[c].storedWindowHash
        /\ ParentHash(c, 201) # NoHash

\* the ranges the planner is to emit for (cursor, rs, target), in unbounded
\* arithmetic
ExpectedCount(cursor, rs, target) ==
    IF target <= cursor THEN 0 ELSE (target - cursor + rs - 1) \div rs

ExpectedRange(cursor, rs, target, i) ==
    LET from == cursor + 1 + (i - 1) * rs
    IN  [from |-> from, to |-> Min(from + rs - 1, target)]

\* the ranges emitted so far are the expected ones: from = cursor+1,
\* cursor+1+rs, ... with to = min(from+rs-1, target), consecutive ranges
\* adjacent, and a finished plan covers exactly (cursor, target]
PlanIsExpected ==
    LET n == ExpectedCount(plan.cursor, plan.rs, plan.target)
        out == plan.out
    IN  /\ Len(out) <= n
        /\ \A i \in 1..Len(out) :
               out[i] = ExpectedRange(plan.cursor, plan.rs, plan.target, i)
        /\ \A i \in 1..(Len(out) - 1) : out[i + 1].from = out[i].to + 1
        /\ \A i \in 1..Len(out) : out[i].from <= out[i].to
        /\ plan.pc = "done" =>
               /\ Len(out) = n
               /\ n > 0 => /\ out[1].from = plan.cursor + 1
                           /\ out[n].to = plan.target
               /\ plan.rs >= plan.target - plan.cursor => n <= 1

\* C35 (as stated): for every cursor, target and range size > 0 the planner
\* emits the ranges from = cursor+1, cursor+1+rs, ... with to =
\* min(from+rs-1, target): adjacent, covering exactly (cursor, target], a
\* single range when rs exceeds target - cursor, and a function of the inputs.
C35_PlannerRangesEveryInput ==
    plan.pc # "idle" => PlanIsExpected

\* C35 (amended): the same for every cursor and target in the int range
\* (below 2^63) and every range size > 0.
C35_PlannerRanges ==
    (plan.pc # "idle" /\ plan.cursor <= MaxInt /\ plan.target <= MaxInt)
        => PlanIsExpected

\* a finished plan of three ranges whose last range is cut at target
C35_Witness ==
    /\ plan.pc = "done"
    /\ plan.target <= MaxInt
    /\ Len(plan.out) = 3
    /\ plan.out[3].to - plan.out[3].from + 1 < plan.rs

\* an epoch whose target is not above the cursor it started from
EmptyEpoch(c) == InEpoch(c) /\ runner[c].target <= runner[c].cursor0

\* C36: when target <= cursor at the start of an epoch, no range is planned
\* or fetched, no log is sent, nothing makes the epoch fail or rewind, and
\* no step of the epoch changes the cursor or the window-hash store.
C36_EmptyEpochChangesNothing ==
    [][\A c \in ChainIds :
          EmptyEpoch(c) =>
              /\ jobs[c].q = <<>> /\ doneCh[c].q = <<>>
              /\ \A w \in 1..MaxWorkers : workers[c][w].job = NoJob
              /\ arbiter[c].window = EmptyMap
              /\ arbiter[c].ncommit = 0 /\ arbiter[c].reorgAt = 0
              /\ sent[c] = <<>>
              /\ errCh[c] = <<>>
              /\ runner[c].cancelled => ctxDone
              /\ chains[c].cursor = runner[c].cursor0
              /\ chains'[c] = chains[c]]_vars

\* the head has not moved since the previous epoch: an epoch with target =
\* cursor > 0 has completed by itself and the runner is about to start the
\* next one
C36_Witness ==
    \E c \in DOMAIN chains :
        /\ EmptyEpoch(c)
        /\ runner[c].pc = "drain" /\ runner[c].then = "continue"
        /\ Drained(c)
        /\ ~ctxDone
        /\ runner[c].cursor0 > 0
        /\ chains[c].windowOrder # <<>>

\* the elements of a sequence
Range(seq) == {seq[i] : i \in 1..Len(seq)}

\* C37: after any sequence of storeWindowHash and dropWindowHash calls the
\* store holds at most storedWindowHashCap entries, windowOrder has no
\* duplicate, and its elements are exactly the keys of storedWindowHash.
C37_StoreWellFormed ==
    \A c \in DOMAIN chains :
        LET order == chains[c].windowOrder
            m == chains[c].storedWindowHash
        IN  /\ Len(order) <= chains[c].storedWindowHashCap
            /\ \A i, j \in 1..Len(order) : i # j => order[i] # order[j]
            /\ Range(order) = DOMAIN m
            /\ Len(order) = Cardinality(DOMAIN m)

\* a full store that is not in ascending order has just taken a new key and
\* evicted its oldest one
C37_Witness ==
    \E c \in DOMAIN chains :
        LET order == chains[c].windowOrder
        IN  /\ calls.op = "store" /\ calls.n >= 2
            /\ Len(order) = chains[c].storedWindowHashCap
            /\ Last(order) = calls.arg
            /\ 1 \notin DOMAIN chains[c].storedWindowHash
            /\ \E i \in 1..(Len(order) - 1) : order[i] > order[i + 1]

\* a single call storeWindowHash(to, hash) has just been made
StoreCalled == calls'.op = "store" /\ calls'.n = calls.n + 1

\* C38: storeWindowHash(end, hash) on an existing key changes only that
\* key's value; on a new key it evicts, if the store is at capacity, the head
\* of windowOrder and nothing else, and appends end at the tail.
C38_StoreFrame ==
    [][\A c \in DOMAIN chains :
          StoreCalled =>
              LET old == chains[c]
                  new == chains'[c]
                  to == calls'.arg
                  full == Len(old.windowOrder) >= old.storedWindowHashCap
                  kept == IF to \in DOMAIN old.storedWindowHash \/ ~full
                          THEN DOMAIN old.storedWindowHash
                          ELSE DOMAIN old.storedWindowHash
                                   \ {old.windowOrder[1]}
              IN  /\ new.storedWindowHash[to] = calls'.hash
                  /\ DOMAIN new.storedWindowHash = kept \cup {to}
                  /\ \A k \in kept \ {to} :
                         new.storedWindowHash[k] = old.storedWindowHash[k]
                  /\ new.windowOrder =
                         IF to \in DOMAIN old.storedWindowHash
                         THEN old.windowOrder
                         ELSE IF full THEN Append(Tail(old.windowOrder), to)
                         ELSE Append(old.windowOrder, to)
                  /\ [new EXCEPT !.storedWindowHash = old.storedWindowHash,
                                 !.windowOrder = old.windowOrder] = old]_vars

\* a key in the middle of a full store has just had its value replaced
C38_Witness ==
    \E c \in DOMAIN chains :
        LET order == chains[c].windowOrder
        IN  /\ calls.op = "store" /\ calls.hash = 2
            /\ Len(order) = chains[c].storedWindowHashCap
            /\ calls.arg # Last(order) /\ calls.arg # order[1]
            /\ chains[c].storedWindowHash[calls.arg] = 2

\* C39: while the output buffer is full and the consumer does not read, the
\* arbiter stays at its send and takes nothing from the result channel (as
\* long as the epoch context is live); the result channel never holds more
\* than WorkerCount results, and a worker that holds a completed result while
\* the channel is full stays as it is, so that once every worker holds one
\* no worker starts another fetch before the consumer reads.
SendBlocked(c) ==
    /\ InEpoch(c)
    /\ arbiter[c].pc = "emit"
    /\ arbiter[c].i <= Len(arbiter[c].window[arbiter[c].next].logs)
    /\ Len(logsCh[c]) = chains[c].opts.LogsBufferSize

Holding(c) ==
    {w \in 1..WorkerCount(chains[c].opts) : workers[c][w].pc = "send"}

C39_Backpressure ==
    [][\A c \in DOMAIN chains :
          LET n == WorkerCount(chains[c].opts) IN
          /\ Len(doneCh[c].q) <= n
          /\ Len(doneCh'[c].q) <= n
          /\ (SendBlocked(c) /\ logsCh'[c] = logsCh[c] /\ ~RpcCtxDone(c)) =>
                /\ arbiter'[c] = arbiter[c]
                /\ sent'[c] = sent[c]
                /\ chains'[c] = chains[c]
                /\ IsPrefix(doneCh[c].q, doneCh'[c].q)
                /\ Len(doneCh[c].q) = n =>
                      /\ doneCh'[c].q = doneCh[c].q
                      /\ \A w \in Holding(c) : workers'[c][w] = workers[c][w]
                      /\ Holding(c) = 1..n => workers'[c] = workers[c]]_vars

\* C39 witness: with two workers the arbiter is stuck at its send, the output
\* buffer and the result channel are full and both workers hold a result
\* they cannot send.
C39_Witness ==
    \E c \in DOMAIN chains :
        /\ SendBlocked(c)
        /\ ~RpcCtxDone(c)
        /\ WorkerCount(chains[c].opts) = 2
        /\ Len(doneCh[c].q) = 2
        /\ Holding(c) = {1, 2}

\* C40: for every ReorgLookbackBlocks and every RangeSize > 0 the capacity
\* AddChain gives the window-hash store is
\* clamp(ceil(ReorgLookbackBlocks / RangeSize) + 1, 8, 256): it lies within
\* [8, 256] and is at least ceil(ReorgLookbackBlocks / RangeSize) + 1
\* whenever that value is at most 256.
CeilDiv(a, b) == IF a % b = 0 THEN a \div b ELSE a \div b + 1

Clamp(x, lo, hi) == IF x < lo THEN lo ELSE IF x > hi THEN hi ELSE x

C40_CapIsClamp ==
    \A c \in DOMAIN chains :
        LET opts == chains[c].opts
            want == CeilDiv(opts.ReorgLookbackBlocks, opts.RangeSize) + 1
        IN  /\ chains[c].storedWindowHashCap \in 8..256
            /\ chains[c].storedWindowHashCap = Clamp(want, 8, 256)
            /\ want <= 256 => chains[c].storedWindowHashCap >= want
====
